---- MODULE Spec2Model ----
(***************************************************************************)
(* Model of app/core/scheduler.py (class Scheduler): the three in-memory   *)
(* timer tables, the asyncio tasks behind them, the durable scheduler_tasks*)
(* table, the restore handler registry and restore_pending_tasks.          *)
(*                                                                         *)
(* Time is a discrete wall clock.  Every coroutine is cut at its await     *)
(* points: one action per run of a coroutine between two suspensions.      *)
(***************************************************************************)
EXTENDS Integers, Sequences, FiniteSets, TLC

VARIABLES
    clock,            \* datetime.now(timezone.utc)
    store,            \* scheduler_tasks table: task_id -> row (NoRow when absent)
    timers,           \* every asyncio.Task created by this process, in creation order
    tasks,            \* Scheduler._tasks (periodic): task_id -> index in timers, 0 = absent
    one_shot_tasks,   \* Scheduler._one_shot_tasks
    cron_tasks,       \* Scheduler._cron_tasks
    cancelled,        \* Scheduler._cancelled
    loop_running,     \* the background thread runs the event loop (Scheduler._loop)
    db_down,          \* the database raises on every statement (get_db_sync, query, commit)
    restore_handlers, \* keys of Scheduler._restore_handlers
    invoked,          \* history: how often the action of a one-shot task id was started
    uuids,            \* number of task ids uuid4() has handed out
    restarts,         \* number of process restarts so far
    created,          \* number of asyncio tasks created so far, over all processes
    ret,              \* what the schedule_at or restore_pending_tasks call of the step
                      \* just taken returned or raised; NoRet after any other step
    calls,            \* the schedule_* call each caller thread is in the middle of
    workers,          \* number of live threads started by Scheduler.start, each running
                      \* the event loop it created in _run_loop
    ledger            \* consent_ledger table: the entries in the order they were added

vars == <<clock, store, timers, tasks, one_shot_tasks, cron_tasks, cancelled,
          loop_running, workers, db_down, restore_handlers, invoked, uuids, restarts, created, ret,
          calls, workers, ledger>>

----
\* Bounds of the model.
MaxTime == 2
MaxOneShots == 1
MaxTimers == 2
MaxRestarts == 1
MaxElapse == 1
MaxReference == 40
MaxWorkers == 2
MaxLedger == 2

\* Input domains.
UuidPool == <<"u1", "u2", "u3", "u4">>
Uuids == {UuidPool[n] : n \in 1..MaxOneShots}
Names == {"a"}
TaskIds == Uuids \cup Names
Times == 0..MaxTime
HandlerTypes == {"h"}
ParameterArgs == {"{}", "{k:1}"}
\* (handler_type, parameters) of a schedule_at call; both default to None.
OneShotArgs == {<<"None", "None">>, <<"h", "{}">>, <<"h", "{k:1}">>}
CronExpressions == {"* * * * *", "bad"}
Intervals == {1}

Max2(a, b) == IF a >= b THEN a ELSE b

----
\* The durable table (app/storage/models.py, SchedulerTask).
NoRow == [task_type |-> "none"]

Row(type, when, interval, cron, handler, pjson) ==
    [task_type |-> type, status |-> "scheduled", scheduled_for |-> when,
     interval_seconds |-> interval, cron_expression |-> cron,
     handler_type |-> handler, parameters_json |-> pjson]

HasRow(st, id) == st[id].task_type # "none"

\* json.dumps(parameters) if parameters else None
JsonDumps(parameters) ==
    IF parameters \in {"None", "{}"} THEN "NULL" ELSE "json:" \o parameters

\* json.loads raises on text that is not JSON
JsonParses(pjson) == pjson \in {"json:" \o p : p \in ParameterArgs}

\* json.loads(t.parameters_json) if t.parameters_json else None
JsonLoads(pjson) ==
    IF pjson = "NULL" THEN "None"
    ELSE CHOOSE p \in ParameterArgs : pjson = "json:" \o p

\* Variant of ParametersOrEmpty without the `or {}`.
ParametersAsLoaded(p) == p

\* task.get("parameters") or {}
ParametersOrEmpty(p) == IF p \in {"None", "{}"} THEN "{}" ELSE p

\* Variant of WriteFailed in which the statements of the failed write took effect.
WriteFailedNoRollback(st, attempted) == attempted

\* A write that raised: `except Exception: db.rollback()` and a log entry; the rows
\* are as before the write.
WriteFailed(st, attempted) == st

\* Scheduler._save_one_shot_task: INSERT; a duplicate task_id rolls back.
SaveOneShotTask(st, id, when, handler, parameters) ==
    IF db_down
    THEN WriteFailed(st, [st EXCEPT ![id] = Row("one_shot", when, 0, "NULL", handler,
                                                JsonDumps(parameters))])
    ELSE IF HasRow(st, id) THEN st
    ELSE [st EXCEPT ![id] = Row("one_shot", when, 0, "NULL", handler, JsonDumps(parameters))]

\* Scheduler._update_task_status: UPDATE status when the row exists.
UpdateTaskStatus(st, id, status) ==
    IF db_down THEN st
    ELSE IF HasRow(st, id) THEN [st EXCEPT ![id].status = status] ELSE st

----
\* asyncio tasks.  late is history kept for a cron task: by how much the clock had
\* passed the occurrence it slept for when it last woke.
Timer(kind, id, when, interval, cron, handler, parameters) ==
    [kind |-> kind, task_id |-> id, pc |-> "new", when |-> when,
     interval |-> interval, cron_expression |-> cron,
     handler_type |-> handler, parameters |-> parameters, outcome |-> "none",
     late |-> 0]

Live(t) == t.pc \in {"new", "sleeping", "checked", "must_cancel", "running", "returned"}

\* The coroutine of t is over (returned, raised or was cancelled): t.done().
Ended(t, how) == [t EXCEPT !.pc = how, !.when = 0, !.late = 0]

\* asyncio.Task.cancel(): CancelledError is thrown into the task at the await it is
\* suspended at, be that the sleep or the awaited action (actions are coroutines
\* that await their I/O); neither loop catches it around the action.
\* A task that the loop thread is executing when another thread cancels it is only
\* marked, and CancelledError is thrown at the next await it suspends at: inside
\* the action for pc checked (past the presence check of _one_shot_task, not yet
\* at `await coro_fn`), nowhere for pc returned (the action is over and no await
\* is left).
CancelTimer(ts, i) ==
    IF ts[i].pc = "checked" THEN [ts EXCEPT ![i].pc = "must_cancel"]
    ELSE IF ts[i].pc = "returned" THEN ts
    ELSE IF Live(ts[i]) THEN [ts EXCEPT ![i] = Ended(@, "cancelled")] ELSE ts

EmptyTable == [id \in TaskIds |-> 0]

\* No call has just returned.
NoRet == [op |-> "none"]

\* The threads that call the scheduler from outside its loop.
Threads == {"t1", "t2"}

\* A thread that is not inside a schedule_* call.
Idle == [pc |-> "idle"]

NoCalls == [t \in Threads |-> Idle]

----
Init ==
    /\ clock = 0
    /\ store = [id \in TaskIds |-> NoRow]
    /\ timers = <<>>
    /\ tasks = EmptyTable
    /\ one_shot_tasks = EmptyTable
    /\ cron_tasks = EmptyTable
    /\ cancelled = FALSE
    /\ loop_running = FALSE
    /\ workers = 0
    /\ db_down = FALSE
    /\ restore_handlers = {}
    /\ invoked = [id \in Uuids |-> 0]
    /\ uuids = 0
    /\ restarts = 0
    /\ ret = NoRet
    /\ created = 0
    /\ calls = NoCalls
    /\ ledger = <<>>

\* Scheduler._ensure_loop: start() when the loop is not running; start() clears
\* _cancelled and runs the loop in a new thread.
EnsureLoop ==
    /\ loop_running' = TRUE
    /\ cancelled' = IF loop_running THEN cancelled ELSE FALSE
    /\ workers' = IF loop_running THEN workers ELSE workers + 1

\* Scheduler.start, called while the thread is not alive.
Start ==
    /\ ~loop_running
    /\ EnsureLoop
    /\ UNCHANGED db_down
    /\ UNCHANGED <<clock, store, timers, tasks, one_shot_tasks, cron_tasks,
                   restore_handlers, invoked, uuids, restarts, created>>
    /\ ret' = NoRet
    /\ UNCHANGED calls
    /\ UNCHANGED ledger

\* The wall clock advances.
Tick ==
    /\ clock < MaxTime
    /\ clock' = clock + 1
    /\ UNCHANGED <<store, timers, tasks, one_shot_tasks, cron_tasks, cancelled,
                   restore_handlers, invoked, uuids, restarts, created>>
    /\ ret' = NoRet
    /\ UNCHANGED <<loop_running, workers, db_down>>
    /\ UNCHANGED calls
    /\ UNCHANGED ledger

\* Scheduler.schedule_at
ScheduleAt(when, handler, parameters) ==
    /\ uuids < MaxOneShots
    /\ created < MaxTimers
    /\ LET id == UuidPool[uuids + 1] IN
       IF when < clock
       THEN /\ ret' = [op |-> "schedule_at", raised |-> TRUE]
            /\ UNCHANGED <<store, timers, one_shot_tasks, uuids, created>>
       ELSE /\ timers' = Append(timers, Timer("one_shot", id, when, 0, "NULL", "None", "None"))
            /\ one_shot_tasks' = [one_shot_tasks EXCEPT ![id] = Len(timers) + 1]
            /\ store' = SaveOneShotTask(store, id, when, handler, parameters)
            /\ uuids' = uuids + 1
            /\ created' = created + 1
            /\ ret' = [op |-> "schedule_at", raised |-> FALSE, task_id |-> id]
    /\ EnsureLoop
    /\ UNCHANGED db_down
    /\ UNCHANGED <<clock, tasks, cron_tasks, restore_handlers, invoked, restarts>>
    /\ UNCHANGED calls
    /\ UNCHANGED ledger

\* Scheduler._one_shot_task, from its first step to the sleep.
OneShotStart(i) ==
    /\ i \in DOMAIN timers
    /\ timers[i].kind = "one_shot"
    /\ timers[i].pc = "new"
    /\ timers' = [timers EXCEPT ![i] =
                    IF @.when < clock THEN Ended(@, "rejected_past")
                    ELSE [@ EXCEPT !.pc = "sleeping"]]
    /\ UNCHANGED <<clock, store, tasks, one_shot_tasks, cron_tasks, cancelled,
                   restore_handlers, invoked, uuids, restarts, created>>
    /\ ret' = NoRet
    /\ UNCHANGED <<loop_running, workers, db_down>>
    /\ UNCHANGED calls
    /\ UNCHANGED ledger

\* Scheduler._one_shot_task, from the end of the sleep to `await coro_fn`.
OneShotWake(i) ==
    /\ i \in DOMAIN timers
    /\ timers[i].kind = "one_shot"
    /\ timers[i].pc = "sleeping"
    /\ clock >= timers[i].when
    /\ LET id == timers[i].task_id IN
       IF one_shot_tasks[id] = 0
       THEN /\ timers' = [timers EXCEPT ![i] = Ended(@, "skipped")]
            /\ UNCHANGED invoked
       ELSE /\ timers' = [timers EXCEPT ![i].pc = "running", ![i].when = 0]
            /\ invoked' = [invoked EXCEPT ![id] = @ + 1]
    /\ UNCHANGED <<clock, store, tasks, one_shot_tasks, cron_tasks, cancelled,
                   restore_handlers, uuids, restarts, created>>
    /\ ret' = NoRet
    /\ UNCHANGED <<loop_running, workers, db_down>>
    /\ UNCHANGED calls
    /\ UNCHANGED ledger

\* Scheduler._one_shot_task: coro_fn returned.
OneShotActionReturns(i) ==
    /\ i \in DOMAIN timers
    /\ timers[i].kind = "one_shot"
    /\ timers[i].pc = "running"
    /\ LET id == timers[i].task_id IN
       /\ store' = UpdateTaskStatus(store, id, "completed")
       /\ one_shot_tasks' = [one_shot_tasks EXCEPT ![id] = 0]
    /\ timers' = [timers EXCEPT ![i] = Ended(@, "done")]
    /\ UNCHANGED <<clock, tasks, cron_tasks, cancelled, restore_handlers, invoked,
                   uuids, restarts, created>>
    /\ ret' = NoRet
    /\ UNCHANGED <<loop_running, workers, db_down>>
    /\ UNCHANGED calls
    /\ UNCHANGED ledger

\* Scheduler._one_shot_task: coro_fn raised; logged, re-raised, finally pops the id.
OneShotActionRaises(i) ==
    /\ i \in DOMAIN timers
    /\ timers[i].kind = "one_shot"
    /\ timers[i].pc = "running"
    /\ one_shot_tasks' = [one_shot_tasks EXCEPT ![timers[i].task_id] = 0]
    /\ timers' = [timers EXCEPT ![i] = Ended(@, "failed")]
    /\ UNCHANGED <<clock, store, tasks, cron_tasks, cancelled, restore_handlers, invoked,
                   uuids, restarts, created>>
    /\ ret' = NoRet
    /\ UNCHANGED <<loop_running, workers, db_down>>
    /\ UNCHANGED calls
    /\ UNCHANGED ledger

----
\* The recurrence expressions croniter parses: "* * * * *" is one occurrence per
\* clock unit, "*/2 * * * *" one at every second unit, "*/3 * * * *" one at every
\* third; "bad" does not parse.
CalendarExpressions == {"* * * * *", "*/2 * * * *", "*/3 * * * *"}

CronValid(expr) == expr \in CalendarExpressions

\* An evaluator that returns the reference itself when it is an occurrence.
NextOccurrenceNotStrict(period, after) == after + ((period - (after % period)) % period)

\* get_next() of the recurrence library: occurrences of an expression lie at the
\* multiples of its period, and the result is the first one strictly after `after`.
NextOccurrence(period, after) == after + period - (after % period)

\* The distance between two occurrences of an expression.
CronPeriod(expr) ==
    IF expr = "*/2 * * * *" THEN 2 ELSE IF expr = "*/3 * * * *" THEN 3 ELSE 1

\* Variant of CronNext that returns an occurrence equal to the instant asked from.
CronNextNotAfter(expr, now) == now

\* croniter(expr, now).get_next(): the first occurrence strictly after now.
CronNext(expr, now) == NextOccurrence(CronPeriod(expr), now)

\* Scheduler._save_periodic_task: upsert by task_id.
SavePeriodicTask(st, id, interval, handler, parameters) ==
    IF db_down
    THEN WriteFailed(st, [st EXCEPT ![id] = Row("periodic", -1, interval, "NULL", handler,
                                                JsonDumps(parameters))])
    ELSE IF HasRow(st, id)
    THEN [st EXCEPT ![id].task_type = "periodic", ![id].status = "scheduled",
                    ![id].interval_seconds = interval, ![id].handler_type = handler,
                    ![id].parameters_json = JsonDumps(parameters)]
    ELSE [st EXCEPT ![id] = Row("periodic", -1, interval, "NULL", handler,
                                JsonDumps(parameters))]

\* Scheduler._save_cron_task: upsert by task_id.
SaveCronTask(st, id, cron, handler, parameters) ==
    IF db_down
    THEN WriteFailed(st, [st EXCEPT ![id] = Row("cron", -1, 0, cron, handler,
                                                JsonDumps(parameters))])
    ELSE IF HasRow(st, id)
    THEN [st EXCEPT ![id].task_type = "cron", ![id].status = "scheduled",
                    ![id].handler_type = handler,
                    ![id].parameters_json = JsonDumps(parameters),
                    ![id].cron_expression = cron]
    ELSE [st EXCEPT ![id] = Row("cron", -1, 0, cron, handler, JsonDumps(parameters))]

\* Variant of SchedulePeriodic that does not cancel the task already armed under the name.
SchedulePeriodicKeepsOld(name, interval, handler, parameters) ==
    /\ created < MaxTimers
    /\ created' = created + 1
    /\ LET old == tasks[name]
           ts == timers
           st == IF old # 0 THEN UpdateTaskStatus(store, name, "cancelled") ELSE store
       IN /\ timers' = Append(ts, Timer("periodic", name, 0, interval, "NULL", "None", "None"))
          /\ tasks' = [tasks EXCEPT ![name] = Len(timers) + 1]
          /\ store' = SavePeriodicTask(st, name, interval, handler, parameters)
    /\ EnsureLoop
    /\ UNCHANGED db_down
    /\ UNCHANGED <<clock, one_shot_tasks, cron_tasks, restore_handlers, invoked,
                   uuids, restarts>>
    /\ ret' = NoRet
    /\ UNCHANGED calls
    /\ UNCHANGED ledger

\* Scheduler.schedule_periodic
SchedulePeriodic(name, interval, handler, parameters) ==
    /\ created < MaxTimers
    /\ created' = created + 1
    /\ LET old == tasks[name]
           ts == IF old # 0 THEN CancelTimer(timers, old) ELSE timers
           st == IF old # 0 THEN UpdateTaskStatus(store, name, "cancelled") ELSE store
       IN /\ timers' = Append(ts, Timer("periodic", name, 0, interval, "NULL", "None", "None"))
          /\ tasks' = [tasks EXCEPT ![name] = Len(timers) + 1]
          /\ store' = SavePeriodicTask(st, name, interval, handler, parameters)
    /\ EnsureLoop
    /\ UNCHANGED db_down
    /\ UNCHANGED <<clock, one_shot_tasks, cron_tasks, restore_handlers, invoked,
                   uuids, restarts>>
    /\ ret' = NoRet
    /\ UNCHANGED calls
    /\ UNCHANGED ledger

\* Scheduler._periodic_task: the `while not self._cancelled` test and the call of func.
\* A loop that starts the wait for the next run when it starts the action.
PeriodicLoopTopFixedRate(t) ==
    IF cancelled THEN Ended(t, "exited")
    ELSE [t EXCEPT !.pc = "running", !.when = clock + t.interval]

PeriodicLoopTop(t) ==
    IF cancelled THEN Ended(t, "exited") ELSE [t EXCEPT !.pc = "running", !.when = 0]

\* Scheduler._periodic_task, first step.
PeriodicStart(i) ==
    /\ i \in DOMAIN timers
    /\ timers[i].kind = "periodic"
    /\ timers[i].pc = "new"
    /\ timers' = [timers EXCEPT ![i] = PeriodicLoopTop(@)]
    /\ UNCHANGED <<clock, store, tasks, one_shot_tasks, cron_tasks, cancelled,
                   restore_handlers, invoked, uuids, restarts, created>>
    /\ ret' = NoRet
    /\ UNCHANGED <<loop_running, workers, db_down>>
    /\ UNCHANGED calls
    /\ UNCHANGED ledger

\* Scheduler._periodic_task: func returned; sleep(interval).
PeriodicActionReturns(i) ==
    /\ i \in DOMAIN timers
    /\ timers[i].kind = "periodic"
    /\ timers[i].pc = "running"
    /\ timers' = [timers EXCEPT ![i].pc = "sleeping", ![i].outcome = "returned",
                                ![i].when = clock + timers[i].interval]
    /\ UNCHANGED <<clock, store, tasks, one_shot_tasks, cron_tasks, cancelled,
                   restore_handlers, invoked, uuids, restarts, created>>
    /\ ret' = NoRet
    /\ UNCHANGED <<loop_running, workers, db_down>>
    /\ UNCHANGED calls
    /\ UNCHANGED ledger

\* Variant of PeriodicActionRaises: the exception leaves the while loop and ends the task.
PeriodicActionRaisesEndsTask(i) ==
    /\ i \in DOMAIN timers
    /\ timers[i].kind = "periodic"
    /\ timers[i].pc = "running"
    /\ timers' = [timers EXCEPT ![i] = Ended([@ EXCEPT !.outcome = "raised"], "failed")]
    /\ UNCHANGED <<clock, store, tasks, one_shot_tasks, cron_tasks, cancelled,
                   restore_handlers, invoked, uuids, restarts, created>>
    /\ ret' = NoRet
    /\ UNCHANGED <<loop_running, workers, db_down>>
    /\ UNCHANGED calls
    /\ UNCHANGED ledger

\* Scheduler._periodic_task: func raised; except Exception logs; sleep(interval).
PeriodicActionRaises(i) ==
    /\ i \in DOMAIN timers
    /\ timers[i].kind = "periodic"
    /\ timers[i].pc = "running"
    /\ timers' = [timers EXCEPT ![i].pc = "sleeping", ![i].outcome = "raised",
                                ![i].when = clock + timers[i].interval]
    /\ UNCHANGED <<clock, store, tasks, one_shot_tasks, cron_tasks, cancelled,
                   restore_handlers, invoked, uuids, restarts, created>>
    /\ ret' = NoRet
    /\ UNCHANGED <<loop_running, workers, db_down>>
    /\ UNCHANGED calls
    /\ UNCHANGED ledger

\* Scheduler._periodic_task: the sleep ended; next iteration.
PeriodicWake(i) ==
    /\ i \in DOMAIN timers
    /\ timers[i].kind = "periodic"
    /\ timers[i].pc = "sleeping"
    /\ clock >= timers[i].when
    /\ timers' = [timers EXCEPT ![i] = PeriodicLoopTop(@)]
    /\ UNCHANGED <<clock, store, tasks, one_shot_tasks, cron_tasks, cancelled,
                   restore_handlers, invoked, uuids, restarts, created>>
    /\ ret' = NoRet
    /\ UNCHANGED <<loop_running, workers, db_down>>
    /\ UNCHANGED calls
    /\ UNCHANGED ledger

----
\* Variant of ArmCron that leaves the task already armed under the id running.
ArmCronKeepsOld(m, id, cron, handler, parameters) ==
    [m EXCEPT !.timers = Append(m.timers, Timer("cron", id, 0, 0, cron, handler, parameters)),
              !.cron_tasks = [m.cron_tasks EXCEPT ![id] = Len(m.timers) + 1]]

\* Scheduler.schedule_cron, the in-memory part: cancel and delete an armed timer of
\* the same id, create the new task, enter it in the table.
ArmCron(m, id, cron, handler, parameters) ==
    LET old == m.cron_tasks[id]
        ts == IF old # 0 THEN CancelTimer(m.timers, old) ELSE m.timers
    IN [m EXCEPT !.timers = Append(ts, Timer("cron", id, 0, 0, cron, handler, parameters)),
                 !.cron_tasks = [m.cron_tasks EXCEPT ![id] = Len(m.timers) + 1]]

\* Scheduler.schedule_cron (persist=True)
ScheduleCron(id, cron, handler, parameters) ==
    /\ created < MaxTimers
    /\ created' = created + 1
    /\ LET st == IF cron_tasks[id] # 0 THEN UpdateTaskStatus(store, id, "cancelled") ELSE store
           m == ArmCron([timers |-> timers, cron_tasks |-> cron_tasks], id, cron, handler,
                        parameters)
       IN /\ store' = SaveCronTask(st, id, cron, handler, parameters)
          /\ timers' = m.timers
          /\ cron_tasks' = m.cron_tasks
    /\ EnsureLoop
    /\ UNCHANGED db_down
    /\ UNCHANGED <<clock, tasks, one_shot_tasks, restore_handlers, invoked,
                   uuids, restarts>>
    /\ ret' = NoRet
    /\ UNCHANGED calls
    /\ UNCHANGED ledger

\* Scheduler._cron_loop from `while not self._cancelled` to the sleep until the
\* next occurrence, which is computed from the current instant.
CronLoopTop(t) ==
    IF cancelled THEN Ended(t, "exited")
    ELSE IF ~CronValid(t.cron_expression) THEN Ended(t, "failed")
    ELSE [t EXCEPT !.pc = "sleeping", !.when = CronNext(t.cron_expression, clock)]

\* Scheduler._cron_loop, first step.
CronStart(i) ==
    /\ i \in DOMAIN timers
    /\ timers[i].kind = "cron"
    /\ timers[i].pc = "new"
    /\ timers' = [timers EXCEPT ![i] = CronLoopTop(timers[i])]
    /\ UNCHANGED <<clock, store, tasks, one_shot_tasks, cron_tasks, cancelled,
                   restore_handlers, invoked, uuids, restarts, created>>
    /\ ret' = NoRet
    /\ UNCHANGED <<loop_running, workers, db_down>>
    /\ UNCHANGED calls
    /\ UNCHANGED ledger

\* The factory registered for handler type h reads parameters["k"]: called with a
\* mapping that lacks the key it raises instead of returning a coroutine.
FactoryRaises(h, parameters) == parameters = "{}"

\* Scheduler._cron_loop: the sleep ended; resolve the handler and await its coroutine.
CronWake(i) ==
    /\ i \in DOMAIN timers
    /\ timers[i].kind = "cron"
    /\ timers[i].pc = "sleeping"
    /\ clock >= timers[i].when
    /\ timers' = [timers EXCEPT ![i] =
          IF cancelled THEN Ended(@, "exited")
          ELSE IF @.handler_type \notin restore_handlers
          THEN CronLoopTop([@ EXCEPT !.outcome = "handler_missing", !.late = clock - timers[i].when])
          ELSE IF FactoryRaises(@.handler_type, @.parameters)
          THEN CronLoopTop([@ EXCEPT !.outcome = "raised", !.late = clock - timers[i].when])
          ELSE [@ EXCEPT !.pc = "running", !.when = 0, !.late = clock - timers[i].when]]
    /\ UNCHANGED <<clock, store, tasks, one_shot_tasks, cron_tasks, cancelled,
                   restore_handlers, invoked, uuids, restarts, created>>
    /\ ret' = NoRet
    /\ UNCHANGED <<loop_running, workers, db_down>>
    /\ UNCHANGED calls
    /\ UNCHANGED ledger

\* Scheduler._cron_loop: the awaited coroutine returned.
CronActionReturns(i) ==
    /\ i \in DOMAIN timers
    /\ timers[i].kind = "cron"
    /\ timers[i].pc = "running"
    /\ timers' = [timers EXCEPT ![i] = CronLoopTop([timers[i] EXCEPT !.outcome = "returned"])]
    /\ UNCHANGED <<clock, store, tasks, one_shot_tasks, cron_tasks, cancelled,
                   restore_handlers, invoked, uuids, restarts, created>>
    /\ ret' = NoRet
    /\ UNCHANGED <<loop_running, workers, db_down>>
    /\ UNCHANGED calls
    /\ UNCHANGED ledger

\* Scheduler._cron_loop: the awaited coroutine raised; except Exception logs.
CronActionRaises(i) ==
    /\ i \in DOMAIN timers
    /\ timers[i].kind = "cron"
    /\ timers[i].pc = "running"
    /\ timers' = [timers EXCEPT ![i] = CronLoopTop([timers[i] EXCEPT !.outcome = "raised"])]
    /\ UNCHANGED <<clock, store, tasks, one_shot_tasks, cron_tasks, cancelled,
                   restore_handlers, invoked, uuids, restarts, created>>
    /\ ret' = NoRet
    /\ UNCHANGED <<loop_running, workers, db_down>>
    /\ UNCHANGED calls
    /\ UNCHANGED ledger

----
\* Variant of CancelTaskEffect that cancels the timer but leaves its id in the table.
CancelTaskEffectKeepsEntry(m, id) ==
    IF m.one_shot_tasks[id] # 0
    THEN [m EXCEPT !.timers = CancelTimer(m.timers, m.one_shot_tasks[id]),
                   !.store = UpdateTaskStatus(m.store, id, "cancelled"),
                   !.result = TRUE]
    ELSE IF m.tasks[id] # 0
    THEN [m EXCEPT !.timers = CancelTimer(m.timers, m.tasks[id]),
                   !.store = UpdateTaskStatus(m.store, id, "cancelled"),
                   !.result = TRUE]
    ELSE [m EXCEPT !.result = FALSE]

\* Scheduler.cancel_task on the tables, timers and rows m: cancel_one_shot_task, then
\* cancel_periodic_task; the cron table is not consulted.  result is the value
\* returned.
CancelTaskEffect(m, id) ==
    IF m.one_shot_tasks[id] # 0
    THEN [m EXCEPT !.timers = CancelTimer(m.timers, m.one_shot_tasks[id]),
                   !.one_shot_tasks = [m.one_shot_tasks EXCEPT ![id] = 0],
                   !.store = UpdateTaskStatus(m.store, id, "cancelled"),
                   !.result = TRUE]
    ELSE IF m.tasks[id] # 0
    THEN [m EXCEPT !.timers = CancelTimer(m.timers, m.tasks[id]),
                   !.tasks = [m.tasks EXCEPT ![id] = 0],
                   !.store = UpdateTaskStatus(m.store, id, "cancelled"),
                   !.result = TRUE]
    ELSE [m EXCEPT !.result = FALSE]

\* The tables, timers and rows a cancel_task call finds.
CancelTaskSees ==
    [timers |-> timers, tasks |-> tasks, one_shot_tasks |-> one_shot_tasks,
     store |-> store, result |-> FALSE]

\* Scheduler.cancel_task
CancelTask(id) ==
    /\ LET m == CancelTaskEffect(CancelTaskSees, id)
       IN /\ timers' = m.timers
          /\ tasks' = m.tasks
          /\ one_shot_tasks' = m.one_shot_tasks
          /\ store' = m.store
    /\ UNCHANGED <<clock, cron_tasks, cancelled, restore_handlers, invoked, uuids, restarts,
                   created>>
    /\ ret' = NoRet
    /\ UNCHANGED <<loop_running, workers, db_down>>
    /\ UNCHANGED calls
    /\ UNCHANGED ledger

\* The ids a table holds.
Held(table) == {id \in TaskIds : table[id] # 0}

\* Variant of CancelAll that never writes the cancellation to the rows.
CancelAllInMemoryOnly(persist_db) ==
    /\ cancelled' = TRUE
    /\ LET held == Held(tasks) \cup Held(one_shot_tasks) \cup Held(cron_tasks)
           idx == {tasks[id] : id \in Held(tasks)}
                  \cup {one_shot_tasks[id] : id \in Held(one_shot_tasks)}
                  \cup {cron_tasks[id] : id \in Held(cron_tasks)}
       IN /\ timers' = [i \in DOMAIN timers |->
                          IF i \in idx /\ Live(timers[i])
                          THEN Ended(timers[i], "cancelled") ELSE timers[i]]
          /\ store' = IF FALSE
                      THEN [id \in TaskIds |->
                              IF id \in held /\ HasRow(store, id)
                              THEN [store[id] EXCEPT !.status = "cancelled"] ELSE store[id]]
                      ELSE store
    /\ tasks' = EmptyTable
    /\ one_shot_tasks' = EmptyTable
    /\ cron_tasks' = EmptyTable
    /\ UNCHANGED <<clock, restore_handlers, invoked, uuids, restarts, created>>
    /\ ret' = NoRet
    /\ UNCHANGED <<loop_running, workers, db_down>>
    /\ UNCHANGED calls
    /\ UNCHANGED ledger

\* Scheduler.cancel_all, what it assigns: the flag, the tasks of the three tables,
\* their rows, the tables.
CancelAllEffect(persist_db) ==
    /\ cancelled' = TRUE
    /\ LET held == Held(tasks) \cup Held(one_shot_tasks) \cup Held(cron_tasks)
           idx == {tasks[id] : id \in Held(tasks)}
                  \cup {one_shot_tasks[id] : id \in Held(one_shot_tasks)}
                  \cup {cron_tasks[id] : id \in Held(cron_tasks)}
       IN /\ timers' = [i \in DOMAIN timers |->
                          IF i \in idx /\ Live(timers[i])
                          THEN Ended(timers[i], "cancelled") ELSE timers[i]]
          /\ store' = IF persist_db /\ ~db_down
                      THEN [id \in TaskIds |->
                              IF id \in held /\ HasRow(store, id)
                              THEN [store[id] EXCEPT !.status = "cancelled"] ELSE store[id]]
                      ELSE store
    /\ tasks' = EmptyTable
    /\ one_shot_tasks' = EmptyTable
    /\ cron_tasks' = EmptyTable

\* Scheduler.cancel_all
CancelAll(persist_db) ==
    /\ CancelAllEffect(persist_db)
    /\ UNCHANGED <<clock, restore_handlers, invoked, uuids, restarts, created>>
    /\ ret' = NoRet
    /\ UNCHANGED <<loop_running, workers, db_down>>
    /\ UNCHANGED calls
    /\ UNCHANGED ledger

\* Scheduler.get_status: the value returned; it reads the periodic and the one-shot
\* table and assigns nothing.
GetStatus ==
    [running |-> loop_running,
     cancelled |-> cancelled,
     periodic_tasks |->
        {[name |-> n, status |-> IF Live(timers[tasks[n]]) THEN "running" ELSE "done"] :
            n \in Held(tasks)},
     one_shot_tasks |->
        {[task_id |-> id,
          status |-> IF Live(timers[one_shot_tasks[id]]) THEN "scheduled" ELSE "done"] :
            id \in Held(one_shot_tasks)},
     periodic_count |-> Cardinality(Held(tasks)),
     one_shot_count |-> Cardinality(Held(one_shot_tasks))]

\* Scheduler.register_restore_handler
RegisterRestoreHandler(h) ==
    /\ h \notin restore_handlers
    /\ restore_handlers' = restore_handlers \cup {h}
    /\ UNCHANGED <<clock, store, timers, tasks, one_shot_tasks, cron_tasks, cancelled,
                   invoked, uuids, restarts, created>>
    /\ ret' = NoRet
    /\ UNCHANGED <<loop_running, workers, db_down>>
    /\ UNCHANGED calls
    /\ UNCHANGED ledger

\* The process ends and a new one constructs the Scheduler (__init__) over the
\* same database; uuid4 never repeats an id.
Restart ==
    /\ restarts < MaxRestarts
    /\ restarts' = restarts + 1
    /\ timers' = <<>>
    /\ tasks' = EmptyTable
    /\ one_shot_tasks' = EmptyTable
    /\ cron_tasks' = EmptyTable
    /\ cancelled' = FALSE
    /\ loop_running' = FALSE
    /\ workers' = 0
    /\ UNCHANGED db_down
    /\ restore_handlers' = {}
    /\ ret' = NoRet
    /\ UNCHANGED <<clock, store, invoked, uuids, created>>
    /\ UNCHANGED calls
    /\ UNCHANGED ledger

----
\* Rows in insertion order as the queries of load_pending_tasks return them.
IdOrder == UuidPool \o <<"a">>

\* The WHERE clauses of load_pending_tasks.
PendingPeriodic(st) ==
    {id \in TaskIds : st[id].task_type = "periodic" /\ st[id].status = "scheduled"}

PendingOneShot(st, now) ==
    {id \in TaskIds : /\ st[id].task_type = "one_shot"
                      /\ st[id].status = "scheduled"
                      /\ st[id].scheduled_for > now}

PendingCron(st) ==
    {id \in TaskIds : st[id].task_type = "cron" /\ st[id].status = "scheduled"}

\* A json.loads of one selected row raised: load_pending_tasks logs a
\* persistence_error and returns empty lists.
LoadFails(st, now) ==
    \/ db_down
    \/ \E id \in PendingPeriodic(st) \cup PendingOneShot(st, now) \cup PendingCron(st) :
        st[id].parameters_json # "NULL" /\ ~JsonParses(st[id].parameters_json)

\* Scheduler.load_pending_tasks
LoadPendingTasks(st, now) ==
    IF LoadFails(st, now)
    THEN [periodic |-> {}, one_shot |-> {}, cron |-> {}]
    ELSE [periodic |-> PendingPeriodic(st), one_shot |-> PendingOneShot(st, now),
          cron |-> PendingCron(st)]

\* Variant of RestorePeriodicRow that arms a periodic timer for the row.
RestorePeriodicRowArms(m, id) ==
    [m EXCEPT !.timers = Append(m.timers, Timer("periodic", id, 0, m.store[id].interval_seconds,
                                                "NULL", "None", "None")),
              !.tasks = [m.tasks EXCEPT ![id] = Len(m.timers) + 1],
              !.periodic = @ + 1]

\* restore_pending_tasks, body of `for task in pending["periodic"]` for one row:
\* periodic_task_restore_skipped is logged, nothing else.
RestorePeriodicRow(m, id) == m

RECURSIVE RestorePeriodicLoop(_, _, _)
RestorePeriodicLoop(m, pending, k) ==
    IF k > Len(IdOrder) THEN m
    ELSE LET id == IdOrder[k]
             m1 == IF id \in pending.periodic THEN RestorePeriodicRow(m, id) ELSE m
         IN RestorePeriodicLoop(m1, pending, k + 1)

\* Variant of RestoreOneShotInMemory without the `if task_id in self._one_shot_tasks` test.
RestoreOneShotInMemoryUnguarded(m, id, when) ==
    [m EXCEPT !.timers = Append(m.timers, Timer("one_shot", id, when, 0, "NULL", "None", "None")),
              !.one_shot_tasks = [m.one_shot_tasks EXCEPT ![id] = Len(m.timers) + 1]]

\* Scheduler.restore_one_shot_in_memory: no second task for an id already in the table.
RestoreOneShotInMemory(m, id, when) ==
    IF m.one_shot_tasks[id] # 0 THEN m
    ELSE [m EXCEPT !.timers = Append(m.timers, Timer("one_shot", id, when, 0, "NULL", "None", "None")),
                   !.one_shot_tasks = [m.one_shot_tasks EXCEPT ![id] = Len(m.timers) + 1]]

\* restore_pending_tasks, body of `for task in pending["one_shot"]` for one row;
\* now is the clock read of that iteration.
RestoreOneShotRow(m, id, now) ==
    LET row == m.store[id]
        h == row.handler_type
    IN IF h = "None" \/ h \notin restore_handlers THEN m
       ELSE IF FactoryRaises(h, ParametersOrEmpty(JsonLoads(row.parameters_json)))
       THEN [m EXCEPT !.failed = @ + 1, !.errors = @ \cup {id}]
       ELSE IF row.scheduled_for > now
       THEN [RestoreOneShotInMemory(m, id, row.scheduled_for) EXCEPT !.one_shot = @ + 1]
       ELSE [m EXCEPT !.store = UpdateTaskStatus(m.store, id, "completed")]

\* Variant of RestoreCronRow that does not look the handler type up in the registry.
RestoreCronRowAnyHandler(m, id) ==
    LET row == m.store[id]
    IN IF row.cron_expression \in {"NULL", ""} THEN m
       ELSE ArmCron(m, id, row.cron_expression, row.handler_type,
                    ParametersOrEmpty(JsonLoads(row.parameters_json)))

\* restore_pending_tasks, body of `for task in pending.get("cron", [])` for one row.
RestoreCronRow(m, id) ==
    LET row == m.store[id]
        h == row.handler_type
    IN IF row.cron_expression \in {"NULL", ""} THEN m
       ELSE IF h = "None" \/ h \notin restore_handlers THEN m
       ELSE ArmCron(m, id, row.cron_expression, h,
                    ParametersOrEmpty(JsonLoads(row.parameters_json)))

RECURSIVE RestoreLoop(_, _, _, _)
\* The two loops of restore_pending_tasks over the loaded rows, in row order.
RestoreLoop(m, pending, nowAt, k) ==
    IF k > Len(IdOrder) THEN m
    ELSE LET id == IdOrder[k]
             m1 == IF id \in pending.one_shot THEN RestoreOneShotRow(m, id, nowAt[id]) ELSE m
         IN RestoreLoop(m1, pending, nowAt, k + 1)

RECURSIVE RestoreCronLoop(_, _, _)
RestoreCronLoop(m, pending, k) ==
    IF k > Len(IdOrder) THEN m
    ELSE LET id == IdOrder[k]
             m1 == IF id \in pending.cron THEN RestoreCronRow(m, id) ELSE m
         IN RestoreCronLoop(m1, pending, k + 1)

\* The clock reads of the one-shot loop: not before the load, and in row order.
ClockReads ==
    {f \in [Uuids -> clock..Max2(clock, IF clock + MaxElapse <= MaxTime THEN clock + MaxElapse ELSE MaxTime)] :
        \A j, k \in 1..MaxOneShots : j <= k => f[UuidPool[j]] <= f[UuidPool[k]]}

\* Scheduler.restore_pending_tasks
RestorePendingTasks ==
    \E nowAt \in ClockReads :
        LET pending == LoadPendingTasks(store, clock)
            m0 == [timers |-> timers, tasks |-> tasks, one_shot_tasks |-> one_shot_tasks,
                   cron_tasks |-> cron_tasks, store |-> store,
                   one_shot |-> 0, periodic |-> 0, failed |-> 0, errors |-> {}]
            m1 == RestoreLoop(RestorePeriodicLoop(m0, pending, 1), pending, nowAt, 1)
            m2 == RestoreCronLoop(m1, pending, 1)
        IN /\ created + Len(m2.timers) - Len(timers) <= MaxTimers
           /\ created' = created + Len(m2.timers) - Len(timers)
           /\ timers' = m2.timers
           /\ tasks' = m2.tasks
           /\ one_shot_tasks' = m2.one_shot_tasks
           /\ cron_tasks' = m2.cron_tasks
           /\ store' = m2.store
           /\ clock' = nowAt[UuidPool[MaxOneShots]]
           /\ ret' = [op |-> "restore_pending_tasks", raised |-> FALSE,
                      one_shot |-> m2.one_shot, periodic |-> m2.periodic,
                      failed |-> m2.failed, errors |-> m2.errors]
           /\ IF Len(m2.timers) > Len(timers) THEN EnsureLoop
              ELSE UNCHANGED <<loop_running, workers, cancelled>>
           /\ UNCHANGED db_down
           /\ UNCHANGED <<restore_handlers, invoked, uuids, restarts, calls, ledger>>

Next ==
    \/ Start
    \/ Tick
    \/ \E w \in Times, a \in OneShotArgs : ScheduleAt(w, a[1], a[2])
    \/ \E i \in 1..MaxTimers : OneShotStart(i)
    \/ \E i \in 1..MaxTimers : OneShotWake(i)
    \/ \E i \in 1..MaxTimers : OneShotActionReturns(i)
    \/ \E i \in 1..MaxTimers : OneShotActionRaises(i)
    \/ \E n \in Names, d \in Intervals : SchedulePeriodic(n, d, "None", "None")
    \/ \E i \in 1..MaxTimers : PeriodicStart(i)
    \/ \E i \in 1..MaxTimers : PeriodicActionReturns(i)
    \/ \E i \in 1..MaxTimers : PeriodicActionRaises(i)
    \/ \E i \in 1..MaxTimers : PeriodicWake(i)
    \/ \E n \in Names, c \in CronExpressions, h \in HandlerTypes, p \in ParameterArgs :
          ScheduleCron(n, c, h, p)
    \/ \E i \in 1..MaxTimers : CronStart(i)
    \/ \E i \in 1..MaxTimers : CronWake(i)
    \/ \E i \in 1..MaxTimers : CronActionReturns(i)
    \/ \E i \in 1..MaxTimers : CronActionRaises(i)
    \/ \E id \in TaskIds : CancelTask(id)
    \/ CancelAll(TRUE)
    \/ \E h \in HandlerTypes : RegisterRestoreHandler(h)
    \/ RestorePendingTasks
    \/ Restart

Spec == Init /\ [][Next]_vars

\* A database that already holds a cron row whose parameters_json is not JSON
\* (app/ui/server.py, get_scheduler_tasks, expects such rows: it catches
\* json.JSONDecodeError for them).
ForeignRow == [Row("cron", -1, 0, "* * * * *", "h", "{k:") EXCEPT !.status = "scheduled"]

InitForeignRow ==
    /\ clock = 0
    /\ store = [id \in TaskIds |-> IF id = "a" THEN ForeignRow ELSE NoRow]
    /\ timers = <<>>
    /\ tasks = EmptyTable
    /\ one_shot_tasks = EmptyTable
    /\ cron_tasks = EmptyTable
    /\ cancelled = FALSE
    /\ loop_running = FALSE
    /\ workers = 0
    /\ db_down = FALSE
    /\ restore_handlers = {}
    /\ invoked = [id \in Uuids |-> 0]
    /\ uuids = 0
    /\ restarts = 0
    /\ ret = NoRet
    /\ created = 0
    /\ calls = NoCalls
    /\ ledger = <<>>

SpecForeignRow == InitForeignRow /\ [][Next]_vars

----
\* app/ai/tool_handlers.py: the chat-facing scheduling tools.
ToolNames == {"discord_schedule_message", "bsky_schedule_post"}

\* args["message"] / args["text"], and args["when_utc"]: an ISO 8601 instant, or
\* text datetime.fromisoformat rejects (written -1).
ToolTexts == {"", "hello"}
ToolWhens == Times \cup {-1}

\* Variant of ToolRejectsPast with the strict comparison schedule_at uses.
ToolRejectsPastStrict(when_dt, now) == when_dt < now

\* `if when_dt <= now: return {"error": "Cannot schedule ... in the past ..."}`
ToolRejectsPast(when_dt, now) == when_dt <= now

\* The body shared by discord_schedule_message and bsky_schedule_post (without an
\* image): validate the arguments, read the clock, reject a past instant, call
\* Scheduler.schedule_at, which reads the clock again (at now2) and raises ValueError
\* for an instant before it; the tool's `except ValueError` turns that into an error
\* result.
ScheduleTool(tool, text, when_utc, now2) ==
    /\ LET id == UuidPool[uuids + 1] IN
       IF text = ""
       THEN /\ ret' = [op |-> tool, error |-> "required"]
            /\ UNCHANGED <<clock, store, timers, one_shot_tasks, uuids, created,
                           loop_running, workers, cancelled>>
       ELSE IF when_utc \notin Times
       THEN /\ ret' = [op |-> tool, error |-> "invalid datetime format"]
            /\ UNCHANGED <<clock, store, timers, one_shot_tasks, uuids, created,
                           loop_running, workers, cancelled>>
       ELSE IF ToolRejectsPast(when_utc, clock)
       THEN /\ ret' = [op |-> tool, error |-> "in the past"]
            /\ UNCHANGED <<clock, store, timers, one_shot_tasks, uuids, created,
                           loop_running, workers, cancelled>>
       ELSE IF when_utc < now2
       THEN /\ ret' = [op |-> tool, error |-> "invalid datetime format"]
            /\ clock' = now2
            /\ EnsureLoop
            /\ UNCHANGED <<store, timers, one_shot_tasks, uuids, created>>
       ELSE /\ uuids < MaxOneShots
            /\ created < MaxTimers
            /\ ret' = [op |-> tool, error |-> "none", task_id |-> id]
            /\ clock' = now2
            /\ EnsureLoop
            /\ timers' = Append(timers, Timer("one_shot", id, when_utc, 0, "NULL", "None", "None"))
            /\ one_shot_tasks' = [one_shot_tasks EXCEPT ![id] = Len(timers) + 1]
            /\ store' = SaveOneShotTask(store, id, when_utc, tool, "{k:1}")
            /\ uuids' = uuids + 1
            /\ created' = created + 1
    /\ UNCHANGED <<tasks, cron_tasks, db_down, restore_handlers, invoked, restarts>>
    /\ UNCHANGED calls
    /\ UNCHANGED ledger

\* The instants the second clock read of a tool call can return.
LaterReads == {n \in clock..(clock + MaxElapse) : n <= MaxTime}

\* discord_schedule_message(args, discord_bot, channel_id)
DiscordScheduleMessage(message, when_utc) ==
    \E now2 \in LaterReads : ScheduleTool("discord_schedule_message", message, when_utc, now2)

\* bsky_schedule_post(args, bluesky_client)
BskySchedulePost(text, when_utc) ==
    \E now2 \in LaterReads : ScheduleTool("bsky_schedule_post", text, when_utc, now2)

\* The scheduler as the chat-facing tools drive it: one-shot tasks only.
NextTools ==
    \/ Start
    \/ Tick
    \/ \E m \in ToolTexts, w \in ToolWhens : DiscordScheduleMessage(m, w)
    \/ \E m \in ToolTexts, w \in ToolWhens : BskySchedulePost(m, w)
    \/ \E i \in 1..MaxTimers : OneShotStart(i)
    \/ \E i \in 1..MaxTimers : OneShotWake(i)
    \/ \E i \in 1..MaxTimers : OneShotActionReturns(i)
    \/ \E id \in TaskIds : CancelTask(id)
    \/ CancelAll(TRUE)
    \/ \E h \in ToolNames : RegisterRestoreHandler(h)
    \/ RestorePendingTasks
    \/ Restart

SpecTools == Init /\ [][NextTools]_vars

----
\* The next-occurrence computation on its own: a cron task `a` is armed at the
\* reference instant clock, and NextOccurrenceChain feeds each result back as the
\* next reference.
InitNextOccurrence ==
    /\ clock \in 0..MaxReference
    /\ \E expr \in CalendarExpressions :
          /\ timers = <<[Timer("cron", "a", clock, 0, expr, "h", "{k:1}")
                            EXCEPT !.pc = "sleeping"]>>
          /\ store = [id \in TaskIds |->
                        IF id = "a" THEN Row("cron", -1, 0, expr, "h", JsonDumps("{k:1}"))
                        ELSE NoRow]
    /\ tasks = EmptyTable
    /\ one_shot_tasks = EmptyTable
    /\ cron_tasks = [EmptyTable EXCEPT !["a"] = 1]
    /\ cancelled = FALSE
    /\ loop_running = TRUE
    /\ workers = 1
    /\ db_down = FALSE
    /\ restore_handlers = {"h"}
    /\ invoked = [id \in Uuids |-> 0]
    /\ uuids = 0
    /\ restarts = 0
    /\ ret = NoRet
    /\ created = 1
    /\ calls = NoCalls
    /\ ledger = <<>>

\* reference := croniter(expr, reference).get_next()
NextOccurrenceChain ==
    /\ timers[1].when <= MaxReference
    /\ timers' = [timers EXCEPT ![1].when = CronNext(timers[1].cron_expression, @)]
    /\ UNCHANGED <<clock, store, tasks, one_shot_tasks, cron_tasks, cancelled, loop_running, workers,
                   db_down, restore_handlers, invoked, uuids, restarts, ret, created>>
    /\ UNCHANGED <<calls, ledger>>

SpecNextOccurrence == InitNextOccurrence /\ [][NextOccurrenceChain]_vars

----
\* The schedule_* methods as the statements a calling thread executes one after the
\* other: nothing in them takes a lock or hands the work to the loop thread, so
\* another caller and the loop's tasks run in between.
Call(op, pc, id, when, interval, cron, handler, parameters) ==
    [op |-> op, pc |-> pc, task_id |-> id, when |-> when, interval |-> interval,
     cron_expression |-> cron, handler_type |-> handler, parameters |-> parameters,
     armed |-> FALSE, saved |-> FALSE]

\* schedule_at up to the check of the time: _ensure_loop, uuid4, when_dt_utc < now.
ScheduleAtBegins(t, when, handler, parameters) ==
    /\ calls[t] = Idle
    /\ uuids < MaxOneShots
    /\ EnsureLoop
    /\ IF when < clock
       THEN /\ ret' = [op |-> "schedule_at", raised |-> TRUE]
            /\ UNCHANGED <<calls, uuids>>
       ELSE /\ calls' = [calls EXCEPT ![t] = Call("schedule_at", "arm", UuidPool[uuids + 1],
                                                  when, 0, "NULL", handler, parameters)]
            /\ uuids' = uuids + 1
            /\ ret' = NoRet
    /\ UNCHANGED <<clock, store, timers, tasks, one_shot_tasks, cron_tasks, db_down,
                   restore_handlers, invoked, restarts, created>>
    /\ UNCHANGED ledger

\* schedule_periodic up to the creation of the task: _ensure_loop, then cancel the
\* task the table holds under the name and mark its row cancelled.
SchedulePeriodicBegins(t, name, interval, handler, parameters) ==
    /\ calls[t] = Idle
    /\ EnsureLoop
    /\ LET old == tasks[name]
       IN /\ timers' = IF old # 0 THEN CancelTimer(timers, old) ELSE timers
          /\ store' = IF old # 0 THEN UpdateTaskStatus(store, name, "cancelled") ELSE store
    /\ calls' = [calls EXCEPT ![t] = Call("schedule_periodic", "arm", name, 0, interval,
                                          "NULL", handler, parameters)]
    /\ ret' = NoRet
    /\ UNCHANGED <<clock, tasks, one_shot_tasks, cron_tasks, db_down, restore_handlers,
                   invoked, uuids, restarts, created>>
    /\ UNCHANGED ledger

\* schedule_cron up to the save: _ensure_loop, then cancel and delete the task the
\* table holds under the id and mark its row cancelled.
ScheduleCronBegins(t, id, cron, handler, parameters) ==
    /\ calls[t] = Idle
    /\ EnsureLoop
    /\ LET old == cron_tasks[id]
       IN /\ timers' = IF old # 0 THEN CancelTimer(timers, old) ELSE timers
          /\ cron_tasks' = [cron_tasks EXCEPT ![id] = 0]
          /\ store' = IF old # 0 THEN UpdateTaskStatus(store, id, "cancelled") ELSE store
    /\ calls' = [calls EXCEPT ![t] = Call("schedule_cron", "save", id, 0, 0, cron, handler,
                                          parameters)]
    /\ ret' = NoRet
    /\ UNCHANGED <<clock, tasks, one_shot_tasks, db_down, restore_handlers, invoked, uuids,
                   restarts, created>>
    /\ UNCHANGED ledger

\* The statement that follows the one at pc, in the order of the method's source:
\* schedule_at and schedule_periodic create the task and then save, schedule_cron
\* saves and then creates the task.
Proceed(c, done) ==
    LET d == [c EXCEPT ![done] = TRUE]
    IN IF d.armed /\ d.saved THEN Idle
       ELSE [d EXCEPT !.pc = IF done = "armed" THEN "save" ELSE "arm"]

\* task = loop.create_task(...); table[task_id] = task
CallArms(t) ==
    /\ calls[t].pc = "arm"
    /\ created < MaxTimers
    /\ created' = created + 1
    /\ LET c == calls[t]
           i == Len(timers) + 1
       IN /\ timers' = Append(timers,
                IF c.op = "schedule_cron"
                THEN Timer("cron", c.task_id, 0, 0, c.cron_expression, c.handler_type,
                           c.parameters)
                ELSE IF c.op = "schedule_periodic"
                THEN Timer("periodic", c.task_id, 0, c.interval, "NULL", "None", "None")
                ELSE Timer("one_shot", c.task_id, c.when, 0, "NULL", "None", "None"))
          /\ tasks' = IF c.op = "schedule_periodic"
                      THEN [tasks EXCEPT ![c.task_id] = i] ELSE tasks
          /\ one_shot_tasks' = IF c.op = "schedule_at"
                               THEN [one_shot_tasks EXCEPT ![c.task_id] = i]
                               ELSE one_shot_tasks
          /\ cron_tasks' = IF c.op = "schedule_cron"
                           THEN [cron_tasks EXCEPT ![c.task_id] = i] ELSE cron_tasks
          /\ calls' = [calls EXCEPT ![t] = Proceed(c, "armed")]
          /\ ret' = IF c.op = "schedule_at" /\ c.saved
                    THEN [op |-> "schedule_at", raised |-> FALSE, task_id |-> c.task_id]
                    ELSE NoRet
    /\ UNCHANGED <<clock, store, cancelled, loop_running, workers, db_down, restore_handlers,
                   invoked, uuids, restarts>>
    /\ UNCHANGED ledger

\* _save_one_shot_task, _save_periodic_task or _save_cron_task
CallSaves(t) ==
    /\ calls[t].pc = "save"
    /\ LET c == calls[t]
       IN /\ store' = IF c.op = "schedule_cron"
                      THEN SaveCronTask(store, c.task_id, c.cron_expression,
                                        c.handler_type, c.parameters)
                      ELSE IF c.op = "schedule_periodic"
                      THEN SavePeriodicTask(store, c.task_id, c.interval, c.handler_type,
                                            c.parameters)
                      ELSE SaveOneShotTask(store, c.task_id, c.when, c.handler_type,
                                           c.parameters)
          /\ calls' = [calls EXCEPT ![t] = Proceed(c, "saved")]
          /\ ret' = IF c.op = "schedule_at"
                    THEN [op |-> "schedule_at", raised |-> FALSE, task_id |-> c.task_id]
                    ELSE NoRet
    /\ UNCHANGED <<clock, timers, tasks, one_shot_tasks, cron_tasks, cancelled,
                   loop_running, workers, db_down, restore_handlers, invoked, uuids, restarts,
                   created>>
    /\ UNCHANGED ledger

\* Scheduler._one_shot_task on the loop thread, from the end of the sleep through
\* the presence check and the log_event call that follows it.
OneShotWakeChecks(i) ==
    /\ i \in DOMAIN timers
    /\ timers[i].kind = "one_shot"
    /\ timers[i].pc = "sleeping"
    /\ clock >= timers[i].when
    /\ timers' = IF one_shot_tasks[timers[i].task_id] = 0
                 THEN [timers EXCEPT ![i] = Ended(@, "skipped")]
                 ELSE [timers EXCEPT ![i].pc = "checked", ![i].when = 0]
    /\ ret' = NoRet
    /\ UNCHANGED <<clock, store, tasks, one_shot_tasks, cron_tasks, cancelled, loop_running, workers,
                   db_down, restore_handlers, invoked, uuids, restarts, created, calls>>
    /\ UNCHANGED ledger

\* `await coro_fn`: the action starts; a cancellation requested since the check
\* reaches it at its first await, and the finally clause pops the id.
OneShotInvokes(i) ==
    /\ i \in DOMAIN timers
    /\ timers[i].kind = "one_shot"
    /\ timers[i].pc \in {"checked", "must_cancel"}
    /\ invoked' = [invoked EXCEPT ![timers[i].task_id] = @ + 1]
    /\ IF timers[i].pc = "must_cancel"
       THEN /\ timers' = [timers EXCEPT ![i] = Ended(@, "cancelled")]
            /\ one_shot_tasks' = [one_shot_tasks EXCEPT ![timers[i].task_id] = 0]
       ELSE /\ timers' = [timers EXCEPT ![i].pc = "running"]
            /\ UNCHANGED one_shot_tasks
    /\ ret' = NoRet
    /\ UNCHANGED <<clock, store, tasks, cron_tasks, cancelled, loop_running, workers, db_down,
                   restore_handlers, uuids, restarts, created, calls>>
    /\ UNCHANGED ledger

\* coro_fn returned: the loop thread is in the log_event call that precedes the
\* status update.
OneShotActionReturned(i) ==
    /\ i \in DOMAIN timers
    /\ timers[i].kind = "one_shot"
    /\ timers[i].pc = "running"
    /\ timers' = [timers EXCEPT ![i].pc = "returned"]
    /\ ret' = NoRet
    /\ UNCHANGED <<clock, store, tasks, one_shot_tasks, cron_tasks, cancelled, loop_running, workers,
                   db_down, restore_handlers, invoked, uuids, restarts, created, calls>>
    /\ UNCHANGED ledger

\* _update_task_status(task_id, "completed"), then the finally clause pops the id.
OneShotMarksCompleted(i) ==
    /\ i \in DOMAIN timers
    /\ timers[i].kind = "one_shot"
    /\ timers[i].pc = "returned"
    /\ store' = UpdateTaskStatus(store, timers[i].task_id, "completed")
    /\ one_shot_tasks' = [one_shot_tasks EXCEPT ![timers[i].task_id] = 0]
    /\ timers' = [timers EXCEPT ![i] = Ended(@, "done")]
    /\ ret' = NoRet
    /\ UNCHANGED <<clock, tasks, cron_tasks, cancelled, loop_running, workers, db_down,
                   restore_handlers, invoked, uuids, restarts, created, calls>>
    /\ UNCHANGED ledger

\* Caller threads inside the schedule_* methods or cancelling, and the loop thread
\* running the tasks they create.
NextThreads ==
    \/ Tick
    \/ \E h \in HandlerTypes : RegisterRestoreHandler(h)
    \/ \E t \in Threads, w \in Times : ScheduleAtBegins(t, w, "h", "{k:1}")
    \/ \E t \in Threads, n \in Names, d \in Intervals :
          SchedulePeriodicBegins(t, n, d, "None", "None")
    \/ \E t \in Threads, n \in Names : ScheduleCronBegins(t, n, "* * * * *", "h", "{k:1}")
    \/ \E t \in Threads : CallArms(t)
    \/ \E t \in Threads : CallSaves(t)
    \/ \E id \in TaskIds : CancelTask(id)
    \/ \E i \in 1..MaxTimers : OneShotStart(i)
    \/ \E i \in 1..MaxTimers : OneShotWakeChecks(i)
    \/ \E i \in 1..MaxTimers : OneShotInvokes(i)
    \/ \E i \in 1..MaxTimers : OneShotActionReturned(i)
    \/ \E i \in 1..MaxTimers : OneShotMarksCompleted(i)
    \/ \E i \in 1..MaxTimers : PeriodicStart(i)
    \/ \E i \in 1..MaxTimers : PeriodicActionReturns(i)
    \/ \E i \in 1..MaxTimers : PeriodicWake(i)
    \/ \E i \in 1..MaxTimers : CronStart(i)
    \/ \E i \in 1..MaxTimers : CronWake(i)
    \/ \E i \in 1..MaxTimers : CronActionReturns(i)

SpecThreads == Init /\ [][NextThreads]_vars

----
\* cancel_one_shot_task as the statements a calling thread executes: the membership
\* test, the lookup and task.cancel(), and then `del self._one_shot_tasks[task_id]`
\* with the status update; the loop thread's finally clause pops the same id in
\* between.
CancelOneShotBegins(t, id) ==
    /\ calls[t] = Idle
    /\ IF one_shot_tasks[id] = 0
       THEN /\ ret' = [op |-> "cancel_one_shot_task", task_id |-> id, error |-> "none",
                       result |-> FALSE, removed |-> FALSE]
            /\ UNCHANGED <<timers, calls>>
       ELSE /\ timers' = CancelTimer(timers, one_shot_tasks[id])
            /\ calls' = [calls EXCEPT ![t] = Call("cancel_one_shot_task", "delete", id, 0, 0,
                                                  "NULL", "None", "None")]
            /\ ret' = NoRet
    /\ UNCHANGED <<clock, store, tasks, one_shot_tasks, cron_tasks, cancelled, loop_running,
                   workers, db_down, restore_handlers, invoked, uuids, restarts, created>>
    /\ UNCHANGED ledger

\* del self._one_shot_tasks[task_id] (KeyError when the id is no longer a key), then
\* _update_task_status(task_id, "cancelled") and return True.
CancelOneShotDeletes(t) ==
    /\ calls[t].pc = "delete"
    /\ LET id == calls[t].task_id
       IN IF one_shot_tasks[id] = 0
          THEN /\ ret' = [op |-> "cancel_one_shot_task", task_id |-> id,
                          error |-> "KeyError", result |-> FALSE, removed |-> FALSE]
               /\ UNCHANGED <<one_shot_tasks, store>>
          ELSE /\ one_shot_tasks' = [one_shot_tasks EXCEPT ![id] = 0]
               /\ store' = UpdateTaskStatus(store, id, "cancelled")
               /\ ret' = [op |-> "cancel_one_shot_task", task_id |-> id, error |-> "none",
                          result |-> TRUE, removed |-> TRUE]
    /\ calls' = [calls EXCEPT ![t] = Idle]
    /\ UNCHANGED <<clock, timers, tasks, cron_tasks, cancelled, loop_running, workers,
                   db_down, restore_handlers, invoked, uuids, restarts, created>>
    /\ UNCHANGED ledger

\* Caller threads scheduling and cancelling one-shot tasks while the loop thread
\* runs them.
NextCancel ==
    \/ Tick
    \/ \E t \in Threads, w \in Times : ScheduleAtBegins(t, w, "h", "{k:1}")
    \/ \E t \in Threads : CallArms(t)
    \/ \E t \in Threads : CallSaves(t)
    \/ \E t \in Threads, id \in Uuids : CancelOneShotBegins(t, id)
    \/ \E t \in Threads : CancelOneShotDeletes(t)
    \/ CancelAll(TRUE)
    \/ \E i \in 1..MaxTimers : OneShotStart(i)
    \/ \E i \in 1..MaxTimers : OneShotWakeChecks(i)
    \/ \E i \in 1..MaxTimers : OneShotInvokes(i)
    \/ \E i \in 1..MaxTimers : OneShotActionReturned(i)
    \/ \E i \in 1..MaxTimers : OneShotMarksCompleted(i)

SpecCancel == Init /\ [][NextCancel]_vars

----
\* Starting and stopping the loop thread.  start() tests the thread and then
\* creates one, without a lock, so the test of one caller and the creation by
\* another interleave.

\* start(), the test: the thread is None or not alive.
StartChecks(t) ==
    /\ calls[t] = Idle
    /\ ~loop_running
    /\ calls' = [calls EXCEPT ![t] = [pc |-> "start"]]
    /\ ret' = NoRet
    /\ UNCHANGED <<clock, store, timers, tasks, one_shot_tasks, cron_tasks, cancelled,
                   loop_running, workers, db_down, restore_handlers, invoked, uuids,
                   restarts, created>>
    /\ UNCHANGED ledger

\* start(), after the test: _cancelled = False, a new thread runs _run_loop, which
\* creates an event loop, stores it in _loop and runs it.
StartSpawns(t) ==
    /\ calls[t].pc = "start"
    /\ workers < MaxWorkers
    /\ cancelled' = FALSE
    /\ workers' = workers + 1
    /\ loop_running' = TRUE
    /\ calls' = [calls EXCEPT ![t] = Idle]
    /\ ret' = NoRet
    /\ UNCHANGED <<clock, store, timers, tasks, one_shot_tasks, cron_tasks, db_down,
                   restore_handlers, invoked, uuids, restarts, created>>
    /\ UNCHANGED ledger

\* A stop() that marks the rows cancelled.
StopPersistDbTrue == TRUE

\* The default of stop's persist_db parameter.
StopPersistDb == FALSE

\* Scheduler.stop(): cancel_all(persist_db), then stop the loop in _loop and join
\* the thread in _thread.
Stop ==
    /\ cancelled' = TRUE
    /\ LET held == Held(tasks) \cup Held(one_shot_tasks) \cup Held(cron_tasks)
           idx == {tasks[id] : id \in Held(tasks)}
                  \cup {one_shot_tasks[id] : id \in Held(one_shot_tasks)}
                  \cup {cron_tasks[id] : id \in Held(cron_tasks)}
       IN /\ timers' = [i \in DOMAIN timers |->
                          IF i \in idx /\ Live(timers[i])
                          THEN Ended(timers[i], "cancelled") ELSE timers[i]]
          /\ store' = IF StopPersistDb /\ ~db_down
                      THEN [id \in TaskIds |->
                              IF id \in held /\ HasRow(store, id)
                              THEN [store[id] EXCEPT !.status = "cancelled"] ELSE store[id]]
                      ELSE store
    /\ tasks' = EmptyTable
    /\ one_shot_tasks' = EmptyTable
    /\ cron_tasks' = EmptyTable
    /\ loop_running' = FALSE
    /\ workers' = IF loop_running THEN workers - 1 ELSE workers
    /\ ret' = [op |-> "stop"]
    /\ UNCHANGED <<clock, db_down, restore_handlers, invoked, uuids, restarts, created,
                   calls>>
    /\ UNCHANGED ledger

\* The scheduler with start and stop: callers that start the loop lazily, stop(),
\* and the tasks of all three types.
NextLoop ==
    \/ \E t \in Threads : StartChecks(t)
    \/ \E t \in Threads : StartSpawns(t)
    \/ Stop
    \/ Tick
    \/ \E w \in Times : ScheduleAt(w, "h", "{k:1}")
    \/ \E i \in 1..MaxTimers : OneShotStart(i)
    \/ \E i \in 1..MaxTimers : OneShotWake(i)
    \/ \E i \in 1..MaxTimers : OneShotActionReturns(i)
    \/ \E n \in Names, d \in Intervals : SchedulePeriodic(n, d, "None", "None")
    \/ \E i \in 1..MaxTimers : PeriodicStart(i)
    \/ \E i \in 1..MaxTimers : PeriodicActionReturns(i)
    \/ \E i \in 1..MaxTimers : PeriodicWake(i)
    \/ \E n \in Names : ScheduleCron(n, "* * * * *", "h", "{k:1}")
    \/ \E i \in 1..MaxTimers : CronStart(i)
    \/ \E i \in 1..MaxTimers : CronWake(i)
    \/ \E i \in 1..MaxTimers : CronActionReturns(i)
    \/ \E h \in HandlerTypes : RegisterRestoreHandler(h)
    \/ RestorePendingTasks

SpecLoop == Init /\ [][NextLoop]_vars

\* The database is unreachable when the scheduler of a process starts; every
\* statement of that process and the following ones raises.
DbGoesDown ==
    /\ ~db_down
    /\ ~loop_running
    /\ db_down' = TRUE
    /\ ret' = NoRet
    /\ UNCHANGED <<clock, store, timers, tasks, one_shot_tasks, cron_tasks, cancelled,
                   loop_running, workers, restore_handlers, invoked, uuids, restarts, created>>
    /\ UNCHANGED calls
    /\ UNCHANGED ledger

NextWriteFails == Next \/ DbGoesDown

\* The scheduler over a database that may fail.
SpecWriteFails == Init /\ [][NextWriteFails]_vars

----
\* Consent (app/core/consent.py) and the chat commands that change it.

\* armed_until_ts of an entry that has none.
NoneTs == -1

\* A ConsentLedger row.  Its ts is its place in ledger: each entry is stamped with
\* the clock as it is created and committed before the next one is created.
Entry(active, modes, armed_until) ==
    [consent_active |-> active, allowed_modes |-> modes, armed_until_ts |-> armed_until]

\* db.query(ConsentLedger).order_by(ConsentLedger.ts.desc()).first()
Latest(l) == l[Len(l)]

\* The arguments arm_consent is called with; the chat commands use the defaults.
Durations == {0, 1}
ModeLists == {{"device"}, {"chat"}}

\* A second test that lets everything through that is_consent_active let through.
ExpiredOrUnsetNotRetested(armed_until, now) == FALSE

\* can_execute_device_command: `not latest.armed_until_ts or latest.armed_until_ts < now`
ExpiredOrUnset(armed_until, now) == armed_until = NoneTs \/ armed_until < now

\* is_consent_active.  armed_until_ts is a DateTime column without timezone
\* (models.py) and now is timezone-aware: the comparison raises TypeError when the
\* session hands the stored value back naive, as a session over the SQLite engine
\* of db.py does, and compares when it hands back the aware value (aware).
IsConsentActive(l, now, aware) ==
    IF Len(l) = 0 THEN "False"
    ELSE IF ~Latest(l).consent_active THEN "False"
    ELSE IF Latest(l).armed_until_ts # NoneTs /\ ~aware THEN "TypeError"
    ELSE IF Latest(l).armed_until_ts # NoneTs /\ Latest(l).armed_until_ts < now THEN "False"
    ELSE "True"

\* can_execute_device_command; it reads the clock again (now2) after
\* is_consent_active has read it (now).
CanExecuteDeviceCommand(l, now, now2, aware) ==
    LET active == IsConsentActive(l, now, aware)
    IN IF active # "True" THEN active
       ELSE IF Len(l) = 0 THEN "False"
       ELSE IF Latest(l).armed_until_ts # NoneTs /\ ~aware THEN "TypeError"
       ELSE IF ExpiredOrUnset(Latest(l).armed_until_ts, now2) THEN "False"
       ELSE IF "device" \notin Latest(l).allowed_modes THEN "False"
       ELSE "True"

\* What a consent operation leaves in the ledger: the entry is added and committed,
\* or the commit raises, the session is rolled back and the exception propagates.
AddEntry(e) ==
    /\ Len(ledger) < MaxLedger
    /\ ledger' = IF db_down THEN ledger ELSE Append(ledger, e)

\* arm_consent(duration, allowed_modes)
ArmConsent(duration, modes) ==
    /\ AddEntry(Entry(TRUE, modes, clock + duration))
    /\ ret' = [op |-> "arm_consent", raised |-> db_down]
    /\ UNCHANGED <<clock, store, timers, tasks, one_shot_tasks, cron_tasks, cancelled,
                   loop_running, workers, db_down, restore_handlers, invoked, uuids,
                   restarts, created, calls>>

\* disarm_consent()
DisarmConsent ==
    /\ AddEntry(Entry(FALSE, {}, NoneTs))
    /\ ret' = [op |-> "disarm_consent", raised |-> db_down]
    /\ UNCHANGED <<clock, store, timers, tasks, one_shot_tasks, cron_tasks, cancelled,
                   loop_running, workers, db_down, restore_handlers, invoked, uuids,
                   restarts, created, calls>>

\* safe_mode()
SafeMode ==
    /\ AddEntry(Entry(FALSE, {}, NoneTs))
    /\ ret' = [op |-> "safe_mode", raised |-> db_down]
    /\ UNCHANGED <<clock, store, timers, tasks, one_shot_tasks, cron_tasks, cancelled,
                   loop_running, workers, db_down, restore_handlers, invoked, uuids,
                   restarts, created, calls>>

\* A caller asks is_consent_active() and can_execute_device_command().
CheckConsent(aware) ==
    /\ \E now2 \in LaterReads :
          /\ ret' = [op |-> "check_consent", at |-> clock, now |-> now2,
                     is_consent_active |-> IsConsentActive(ledger, clock, aware),
                     can_execute_device_command |->
                         CanExecuteDeviceCommand(ledger, clock, now2, aware)]
          /\ clock' = now2
    /\ UNCHANGED <<store, timers, tasks, one_shot_tasks, cron_tasks, cancelled,
                   loop_running, workers, db_down, restore_handlers, invoked, uuids,
                   restarts, created, calls, ledger>>

\* A handler that cancels the tasks whether or not safe_mode() raised.
SafeModeCommandAlwaysCancels(source) ==
    /\ AddEntry(Entry(FALSE, {}, NoneTs))
    /\ CancelAllEffect(TRUE)
    /\ ret' = [op |-> "SAFE MODE", source |-> source,
               reply |-> IF db_down THEN "Error" ELSE "SAFE MODE ACTIVATED"]
    /\ UNCHANGED <<clock, loop_running, workers, db_down, restore_handlers, invoked,
                   uuids, restarts, created, calls>>

\* DiscordBot._on_message and TelegramBot._handle_command, the SAFE MODE command:
\* safe_mode(), then get_scheduler().cancel_all(), then the reply; an exception of
\* either is caught and reported as an error.
SafeModeCommand(source) ==
    /\ AddEntry(Entry(FALSE, {}, NoneTs))
    /\ IF db_down
       THEN UNCHANGED <<store, timers, tasks, one_shot_tasks, cron_tasks, cancelled>>
       ELSE CancelAllEffect(TRUE)
    /\ ret' = [op |-> "SAFE MODE", source |-> source,
               reply |-> IF db_down THEN "Error" ELSE "SAFE MODE ACTIVATED"]
    /\ UNCHANGED <<clock, loop_running, workers, db_down, restore_handlers, invoked,
                   uuids, restarts, created, calls>>

\* The chat front ends.
CommandSources == {"discord", "telegram"}

\* Consent operations and chat commands next to a scheduler with one-shot and
\* periodic tasks, over a database that may fail.
NextConsent ==
    \/ Tick
    \/ DbGoesDown
    \/ \E d \in Durations, m \in ModeLists : ArmConsent(d, m)
    \/ DisarmConsent
    \/ SafeMode
    \/ \E aware \in BOOLEAN : CheckConsent(aware)
    \/ \E source \in CommandSources : SafeModeCommand(source)
    \/ \E w \in Times : ScheduleAt(w, "h", "{k:1}")
    \/ \E i \in 1..MaxTimers : OneShotStart(i)
    \/ \E i \in 1..MaxTimers : OneShotWake(i)
    \/ \E i \in 1..MaxTimers : OneShotActionReturns(i)
    \/ \E n \in Names, d \in Intervals : SchedulePeriodic(n, d, "None", "None")
    \/ \E i \in 1..MaxTimers : PeriodicStart(i)

SpecConsent == Init /\ [][NextConsent]_vars

----
\* Claims.

\* The live asyncio tasks of one kind that run for one task id.
LiveTimersOf(ts, kind, id) ==
    {i \in DOMAIN ts : ts[i].kind = kind /\ ts[i].task_id = id /\ Live(ts[i])}

RowIds(st) == {id \in TaskIds : HasRow(st, id)}

\* C1: every schedule_at(when, ...) with when <= now raises, creates no row and
\* adds no entry to the one-shot table.
C1_NotStrictlyFutureRejected ==
    [][\A w \in Times, a \in OneShotArgs :
         (ScheduleAt(w, a[1], a[2]) /\ w <= clock) =>
            /\ ret'.raised
            /\ store' = store
            /\ one_shot_tasks' = one_shot_tasks]_vars

\* C2: a one-shot task that schedule_at admitted and nobody cancelled ends with its
\* action invoked exactly once, its row completed and its id out of the table.
C2_AdmittedOneShotFiresOnce ==
    \A i \in DOMAIN timers :
        (/\ restarts = 0
         /\ timers[i].kind = "one_shot"
         /\ ~Live(timers[i])
         /\ timers[i].pc # "cancelled") =>
            /\ invoked[timers[i].task_id] = 1
            /\ store[timers[i].task_id].status = "completed"
            /\ one_shot_tasks[timers[i].task_id] = 0

\* C3: when the action of a one-shot task raises, its row still ends completed and
\* the action is not invoked again.
C3_RaisingOneShotCompleted ==
    \A i \in DOMAIN timers :
        (timers[i].kind = "one_shot" /\ timers[i].pc = "failed") =>
            /\ store[timers[i].task_id].status = "completed"
            /\ invoked[timers[i].task_id] = 1

\* C4: when the action of a periodic or cron task raises during a fire, the timer
\* stays in its table, sleeps until the next occurrence, and the row is left as it is
\* (status scheduled stays scheduled).
C4_RaisingRecurringStaysArmed ==
    [][\A i \in 1..MaxTimers :
         (PeriodicActionRaises(i) \/ CronActionRaises(i)) =>
            LET id == timers[i].task_id
                table == IF timers[i].kind = "periodic" THEN tasks ELSE cron_tasks
                tableAfter == IF timers[i].kind = "periodic" THEN tasks' ELSE cron_tasks'
            IN /\ table[id] = i
               /\ tableAfter[id] = i
               /\ timers'[i].pc = "sleeping"
               /\ timers'[i].when > clock
               /\ timers'[i].outcome = "raised"
               /\ store' = store]_vars

\* C4 witness: a recurring timer whose last fire raised is firing again, still in its
\* table, with its row still scheduled.
C4_FiresAgainAfterRaise ==
    \E i \in DOMAIN timers :
        /\ timers[i].kind \in {"periodic", "cron"}
        /\ timers[i].outcome = "raised"
        /\ timers[i].pc = "running"
        /\ (IF timers[i].kind = "periodic" THEN tasks ELSE cron_tasks)[timers[i].task_id] = i
        /\ store[timers[i].task_id].status = "scheduled"

\* C5: after restore_pending_tasks, every one-shot row that was scheduled with its
\* fire instant already in the past is completed, and no timer was armed for it.
C5_MissedOneShotsCompleted ==
    [][RestorePendingTasks =>
         \A id \in TaskIds :
            (/\ store[id].task_type = "one_shot"
             /\ store[id].status = "scheduled"
             /\ store[id].scheduled_for < clock) =>
                /\ store'[id].status = "completed"
                /\ one_shot_tasks'[id] = one_shot_tasks[id]]_vars

\* The outcome C6 describes for a row id across a restore step: one live one-shot
\* timer, held by the table under the row's id, and no change to the rows.
OneShotArmedOnce(id) ==
    /\ one_shot_tasks'[id] \in LiveTimersOf(timers', "one_shot", id)
    /\ LiveTimersOf(timers', "one_shot", id) = {one_shot_tasks'[id]}
    /\ timers'[one_shot_tasks'[id]].when = store[id].scheduled_for
    /\ store'[id] = store[id]
    /\ RowIds(store') = RowIds(store)

\* C6 as stated: each scheduled one-shot row with a future fire instant and a
\* registered handler is armed exactly once by restore_pending_tasks.
C6_EveryFutureRowArmedOnce ==
    [][RestorePendingTasks =>
         \A id \in TaskIds :
            (/\ store[id].task_type = "one_shot"
             /\ store[id].status = "scheduled"
             /\ store[id].scheduled_for > clock'
             /\ store[id].handler_type \in restore_handlers) =>
                OneShotArmedOnce(id)]_vars

\* C6 amended: each one-shot row that restore_pending_tasks loads, whose fire
\* instant is still in the future, and whose registered handler factory returns an
\* action for the stored parameters, is armed exactly once under its id, with no row
\* inserted; a repeated restore leaves that one timer.
C6_LoadedFutureRowArmedOnce ==
    [][RestorePendingTasks =>
         \A id \in LoadPendingTasks(store, clock).one_shot :
            (/\ store[id].scheduled_for > clock'
             /\ store[id].handler_type \in restore_handlers
             /\ ~FactoryRaises(store[id].handler_type,
                               ParametersOrEmpty(JsonLoads(store[id].parameters_json)))) =>
                OneShotArmedOnce(id)]_vars

\* C6 witness: in a restarted process a restore has just returned and the timer an
\* earlier restore armed for the persisted row is still the only one, already asleep.
C6_RestoredTwice ==
    /\ restarts = 1
    /\ ret.op = "restore_pending_tasks"
    /\ ret.one_shot = 1
    /\ \E id \in Uuids :
          /\ one_shot_tasks[id] # 0
          /\ timers[one_shot_tasks[id]].pc = "sleeping"
          /\ LiveTimersOf(timers, "one_shot", id) = {one_shot_tasks[id]}
          /\ store[id].status = "scheduled"

\* C7: restoring a scheduled cron row with a registered handler leaves exactly one
\* live cron timer under its id (a timer already armed under the id is cancelled),
\* inserts no row and rewrites nothing in the row.
C7_RestoredCronArmedOnce ==
    [][RestorePendingTasks =>
         \A id \in TaskIds :
            (/\ store[id].task_type = "cron"
             /\ store[id].status = "scheduled"
             /\ store[id].handler_type \in restore_handlers) =>
                /\ cron_tasks'[id] \in DOMAIN timers' \ DOMAIN timers
                /\ LiveTimersOf(timers', "cron", id) = {cron_tasks'[id]}
                /\ timers'[cron_tasks'[id]].cron_expression = store[id].cron_expression
                /\ store'[id] = store[id]
                /\ RowIds(store') = RowIds(store)]_vars

\* C7 witness: a restore has just re-armed a cron id that was already armed in
\* memory: the earlier timer is cancelled, the new one is in the table.
C7_RestoredOverArmed ==
    /\ ret.op = "restore_pending_tasks"
    /\ \E id \in TaskIds, i \in DOMAIN timers :
          /\ timers[i].kind = "cron" /\ timers[i].task_id = id
          /\ timers[i].pc = "cancelled"
          /\ cron_tasks[id] > i
          /\ timers[cron_tasks[id]].pc = "new"
          /\ store[id].task_type = "cron"
          /\ store[id].status = "scheduled"
          /\ store[id].handler_type \in restore_handlers

\* C8: a scheduled cron row whose handler_type has no registered factory gets no
\* timer from restore_pending_tasks and keeps its row, status scheduled.
C8_UnregisteredCronNotArmed ==
    [][RestorePendingTasks =>
         \A id \in TaskIds :
            (/\ store[id].task_type = "cron"
             /\ store[id].status = "scheduled"
             /\ store[id].handler_type \notin restore_handlers) =>
                /\ cron_tasks'[id] = cron_tasks[id]
                /\ \A i \in DOMAIN timers' \ DOMAIN timers :
                      ~(timers'[i].kind = "cron" /\ timers'[i].task_id = id)
                /\ store'[id] = store[id]]_vars

\* C8 witness: after a restart a restore has just returned, a scheduled cron row
\* with an unregistered handler is in the store and nothing is armed for it.
C8_UnregisteredCronSkipped ==
    /\ restarts = 1
    /\ ret.op = "restore_pending_tasks"
    /\ \E id \in TaskIds :
          /\ store[id].task_type = "cron"
          /\ store[id].status = "scheduled"
          /\ store[id].handler_type \notin restore_handlers
          /\ cron_tasks[id] = 0
          /\ LiveTimersOf(timers, "cron", id) = {}

\* C9: the summary of a restore that met a scheduled cron row with an unregistered
\* handler counts a failure and lists the task in errors.
C9_UnregisteredCronReported ==
    ret.op = "restore_pending_tasks" =>
        \A id \in TaskIds :
            (/\ store[id].task_type = "cron"
             /\ store[id].status = "scheduled"
             /\ store[id].handler_type \notin restore_handlers) =>
                (ret.failed >= 1 /\ id \in ret.errors)

\* A row restore_pending_tasks cannot restore: no registered handler, stored
\* parameters that do not parse, or a factory that raises.
RestoreFails(st, id) ==
    /\ st[id].task_type \in {"one_shot", "cron"}
    /\ st[id].status = "scheduled"
    /\ \/ st[id].handler_type \notin restore_handlers
       \/ (st[id].parameters_json # "NULL" /\ ~JsonParses(st[id].parameters_json))
       \/ /\ st[id].task_type = "one_shot"
          /\ st[id].parameters_json = "NULL" \/ JsonParses(st[id].parameters_json)
          /\ FactoryRaises(st[id].handler_type,
                           ParametersOrEmpty(JsonLoads(st[id].parameters_json)))

\* A one-shot row that can be restored: scheduled, still in the future, handler
\* registered, parameters that parse and that the factory accepts.
RestorableOneShot(st, id, now) ==
    /\ st[id].task_type = "one_shot"
    /\ st[id].status = "scheduled"
    /\ st[id].scheduled_for > now
    /\ st[id].handler_type \in restore_handlers
    /\ JsonParses(st[id].parameters_json)
    /\ ~FactoryRaises(st[id].handler_type, JsonLoads(st[id].parameters_json))

\* C10: a restore failure on one row does not keep another, restorable row from
\* being armed by the same restore_pending_tasks call.
C10_FailureDoesNotBlockOthers ==
    [][RestorePendingTasks =>
         \A f \in TaskIds, id \in TaskIds :
            (f # id /\ RestoreFails(store, f) /\ RestorableOneShot(store, id, clock')) =>
                one_shot_tasks'[id] \in LiveTimersOf(timers', "one_shot", id)]_vars

\* C11: cancel_task(id) on an id armed in any of the three tables returns true,
\* takes the id out of its table, leaves no live timer for it and marks its row
\* cancelled.
C11_CancelTaskDisarmsAnyType ==
    [][\A id \in TaskIds :
         (/\ CancelTask(id)
          /\ (one_shot_tasks[id] # 0 \/ tasks[id] # 0 \/ cron_tasks[id] # 0)) =>
            /\ CancelTaskEffect(CancelTaskSees, id).result
            /\ one_shot_tasks'[id] = 0 /\ tasks'[id] = 0 /\ cron_tasks'[id] = 0
            /\ \A i \in DOMAIN timers' : timers'[i].task_id = id => ~Live(timers'[i])
            /\ HasRow(store, id) => store'[id].status = "cancelled"]_vars

\* C12: a cancel_all step empties the three tables, and from then until the
\* scheduler is restarted no step starts a task action, not even for a task
\* scheduled after the cancel_all.
C12_NoFireAfterCancelAll ==
    [][/\ CancelAll(TRUE) =>
            (tasks' = EmptyTable /\ one_shot_tasks' = EmptyTable /\ cron_tasks' = EmptyTable)
       /\ (cancelled /\ cancelled') =>
            \A i \in DOMAIN timers' :
               timers'[i].pc = "running" => (i \in DOMAIN timers /\ timers[i].pc = "running")]_vars

\* The ids under which a timer is held in one of the three tables.
Armed == Held(tasks) \cup Held(one_shot_tasks) \cup Held(cron_tasks)

\* C13: cancel_all() marks the row of every armed task cancelled; a cancelled row
\* stays cancelled until a task is scheduled anew under its id, and
\* restore_pending_tasks arms nothing for a cancelled row.
C13_CancelAllIsDurable ==
    [][/\ CancelAll(TRUE) =>
            \A id \in Armed : HasRow(store, id) => store'[id].status = "cancelled"
       /\ \A id \in TaskIds :
            (HasRow(store, id) /\ store[id].status = "cancelled") =>
               /\ \/ store'[id].status = "cancelled"
                  \/ \E d \in Intervals : SchedulePeriodic(id, d, "None", "None")
                  \/ \E c \in CronExpressions, h \in HandlerTypes, q \in ParameterArgs :
                        ScheduleCron(id, c, h, q)
               /\ RestorePendingTasks =>
                     /\ one_shot_tasks'[id] = one_shot_tasks[id]
                     /\ cron_tasks'[id] = cron_tasks[id]
                     /\ tasks'[id] = tasks[id]
                     /\ \A i \in DOMAIN timers' \ DOMAIN timers : timers'[i].task_id # id]_vars

\* C13 witness: after cancel_all and a restart, a restore has just returned; the
\* cancelled one-shot row is still in the future, its handler is registered and its
\* factory would return an action, and nothing is armed for it.
C13_CancelledRowNotRestored ==
    /\ restarts = 1
    /\ ret.op = "restore_pending_tasks"
    /\ \E id \in Uuids :
          /\ HasRow(store, id)
          /\ store[id].status = "cancelled"
          /\ store[id].scheduled_for > clock
          /\ store[id].handler_type \in restore_handlers
          /\ ~FactoryRaises(store[id].handler_type,
                            ParametersOrEmpty(JsonLoads(store[id].parameters_json)))
          /\ one_shot_tasks[id] = 0
          /\ \A i \in DOMAIN timers : timers[i].task_id # id

\* C14: at most one periodic timer per name is live at any time; a schedule_periodic
\* call under a name that is already armed cancels the earlier timer, leaves the new
\* timer as the only live one and the one the table holds, and leaves the row of the
\* name periodic with status scheduled.
C14_OnePeriodicTimerPerName ==
    /\ [](\A n \in Names : Cardinality(LiveTimersOf(timers, "periodic", n)) <= 1)
    /\ [][\A n \in Names, d \in Intervals :
            SchedulePeriodic(n, d, "None", "None") =>
               /\ tasks[n] # 0 => ~Live(timers'[tasks[n]])
               /\ tasks'[n] \in DOMAIN timers' \ DOMAIN timers
               /\ LiveTimersOf(timers', "periodic", n) = {tasks'[n]}
               /\ store'[n].task_type = "periodic"
               /\ store'[n].status = "scheduled"]_vars

\* C14 witness: a name was registered twice in this process; the first timer is
\* cancelled, the replacement is running its action and is the one in the table.
C14_ReplacementArmed ==
    \E n \in Names, i \in DOMAIN timers :
        /\ timers[i].kind = "periodic" /\ timers[i].task_id = n
        /\ timers[i].pc = "cancelled"
        /\ tasks[n] > i
        /\ timers[tasks[n]].pc = "running"
        /\ store[n].task_type = "periodic"
        /\ store[n].status = "scheduled"

\* C15: in the state a cancel_task(id) call leaves, a second cancel_task(id) returns
\* False and changes no table, no timer and no row (it has no statement that raises).
C15_SecondCancelIsNoOp ==
    [][\A id \in TaskIds :
         CancelTask(id) =>
            LET first == CancelTaskEffect(CancelTaskSees, id)
                second == CancelTaskEffect(first, id)
            IN /\ first.timers = timers' /\ first.store = store'
               /\ first.tasks = tasks' /\ first.one_shot_tasks = one_shot_tasks'
               /\ second.result = FALSE
               /\ second.timers = first.timers
               /\ second.tasks = first.tasks
               /\ second.one_shot_tasks = first.one_shot_tasks
               /\ second.store = first.store]_vars

\* C15 witness: a cancel_task call has cancelled an armed task (timer cancelled, id
\* out of the tables, row cancelled) and a second call for the id would find nothing.
C15_AlreadyCancelled ==
    \E id \in TaskIds, i \in DOMAIN timers :
        /\ timers[i].task_id = id
        /\ timers[i].kind \in {"one_shot", "periodic"}
        /\ timers[i].pc = "cancelled"
        /\ ~cancelled
        /\ one_shot_tasks[id] = 0 /\ tasks[id] = 0
        /\ store[id].status = "cancelled"
        /\ ~CancelTaskEffect(CancelTaskSees, id).result

\* C16: a cron task fires only when the occurrence it slept for is due, and every
\* time it goes back to sleep (after a fire or a skipped fire, however late the wake
\* was) it waits for the first occurrence strictly after the current instant: one
\* fire per wake, no occurrence fired twice, no catch-up of missed occurrences.
C16_CronResumesFromNow ==
    [][\A i \in DOMAIN timers :
         /\ (CronWake(i) /\ timers'[i].pc = "running") => clock >= timers[i].when
         /\ (/\ timers[i].kind = "cron"
             /\ i \in DOMAIN timers'
             /\ timers'[i] # timers[i]
             /\ timers'[i].pc = "sleeping") =>
                /\ timers'[i].when = CronNext(timers[i].cron_expression, clock)
                /\ timers'[i].when > clock
                /\ clock' = clock]_vars

\* C16 witness: a cron task woke after the clock had passed the occurrence it slept
\* for by at least one further occurrence, fired once, and now sleeps until the first
\* occurrence after the instant of that fire.
C16_LateWakeFiredOnce ==
    \E i \in DOMAIN timers :
        /\ timers[i].kind = "cron"
        /\ timers[i].pc = "sleeping"
        /\ timers[i].late >= 1
        /\ timers[i].outcome = "returned"
        /\ timers[i].when > clock

\* C17: schedule_cron with an expression that does not parse writes no row and adds
\* nothing to the cron table or the timers.
C17_MalformedCronRejected ==
    [][\A n \in Names, c \in CronExpressions, h \in HandlerTypes, q \in ParameterArgs :
         (ScheduleCron(n, c, h, q) /\ ~CronValid(c)) =>
            /\ store' = store
            /\ cron_tasks' = cron_tasks
            /\ timers' = timers]_vars

\* C18: when the durable write of schedule_at, schedule_periodic or schedule_cron
\* fails, the call returns without raising, a new live timer is in the table under
\* the id, and the rows are as they were before the call; when the sleep of a timer
\* ends its action is started whether or not a row exists for it.
C18_FailedWriteStillArms ==
    [][db_down =>
         /\ \A w \in Times, a \in OneShotArgs :
               (ScheduleAt(w, a[1], a[2]) /\ w >= clock) =>
                  /\ ~ret'.raised
                  /\ one_shot_tasks'[ret'.task_id] \in DOMAIN timers' \ DOMAIN timers
                  /\ Live(timers'[one_shot_tasks'[ret'.task_id]])
                  /\ store' = store
         /\ \A n \in Names, d \in Intervals :
               SchedulePeriodic(n, d, "None", "None") =>
                  /\ tasks'[n] \in DOMAIN timers' \ DOMAIN timers
                  /\ Live(timers'[tasks'[n]])
                  /\ store' = store
         /\ \A n \in Names, c \in CronExpressions, h \in HandlerTypes, q \in ParameterArgs :
               ScheduleCron(n, c, h, q) =>
                  /\ cron_tasks'[n] \in DOMAIN timers' \ DOMAIN timers
                  /\ Live(timers'[cron_tasks'[n]])
                  /\ store' = store
         /\ \A i \in DOMAIN timers :
               /\ (OneShotWake(i) /\ one_shot_tasks[timers[i].task_id] # 0) =>
                     timers'[i].pc = "running"
               /\ ((PeriodicStart(i) \/ PeriodicWake(i)) /\ ~cancelled) =>
                     timers'[i].pc = "running"
               /\ (/\ CronWake(i) /\ ~cancelled
                   /\ timers[i].handler_type \in restore_handlers
                   /\ ~FactoryRaises(timers[i].handler_type, timers[i].parameters)) =>
                     timers'[i].pc = "running"]_vars

\* C18 witness: the database is down, and the action of a one-shot task that has no
\* row is running in the process that scheduled it.
C18_UnpersistedOneShotFires ==
    \E i \in DOMAIN timers :
        /\ db_down
        /\ timers[i].kind = "one_shot"
        /\ timers[i].pc = "running"
        /\ ~HasRow(store, timers[i].task_id)
        /\ invoked[timers[i].task_id] = 1

\* C19: cancel_task(id) while the action of the task is executing leaves that
\* execution running; only later fires are prevented.
C19_CancelSparesRunningAction ==
    [][\A id \in TaskIds :
         CancelTask(id) =>
            \A i \in DOMAIN timers :
               (timers[i].task_id = id /\ timers[i].pc = "running") =>
                  timers'[i].pc = "running"]_vars

\* C20: a restore_pending_tasks step leaves the periodic table as it was, creates no
\* periodic timer, counts none as restored and leaves every scheduled periodic row
\* unchanged.
C20_RestoreSkipsPeriodic ==
    [][RestorePendingTasks =>
         /\ tasks' = tasks
         /\ \A i \in DOMAIN timers' \ DOMAIN timers : timers'[i].kind # "periodic"
         /\ ret'.periodic = 0
         /\ \A id \in TaskIds :
               (store[id].task_type = "periodic" /\ store[id].status = "scheduled") =>
                  store'[id] = store[id]]_vars

\* C20 witness: in a restarted process a restore has just returned; it loaded a
\* scheduled periodic row, and no periodic timer exists for it.
C20_PeriodicRowLeftUnarmed ==
    /\ restarts = 1
    /\ ret.op = "restore_pending_tasks"
    /\ \E id \in LoadPendingTasks(store, clock).periodic :
          /\ store[id].status = "scheduled"
          /\ tasks[id] = 0
          /\ LiveTimersOf(timers, "periodic", id) = {}

\* The timers of one kind that a step created.
NewTimers(kind) ==
    {i \in DOMAIN timers' \ DOMAIN timers : timers'[i].kind = kind}

\* C21: the summary of restore_pending_tasks counts, per task type, the timers the
\* call armed, so that every timer it armed (a cron timer too) is in one of its
\* restored counts, and counts as failed the loaded rows it armed nothing for.
C21_SummaryCountsArmedTimers ==
    [][RestorePendingTasks =>
         LET pending == LoadPendingTasks(store, clock)
             unarmed == {id \in pending.one_shot \cup pending.cron :
                            \A i \in DOMAIN timers' \ DOMAIN timers : timers'[i].task_id # id}
         IN /\ ret'.one_shot = Cardinality(NewTimers("one_shot"))
            /\ ret'.periodic = Cardinality(NewTimers("periodic"))
            /\ ret'.one_shot + ret'.periodic = Len(timers') - Len(timers)
            /\ ret'.failed = Cardinality(unarmed)]_vars

\* C22: the snapshot get_status returns lists every id held in the one-shot, the
\* periodic and the cron table.
C22_StatusListsEveryTable ==
    Held(tasks) \cup Held(one_shot_tasks) \cup Held(cron_tasks) \subseteq
        {t.name : t \in GetStatus.periodic_tasks}
            \cup {t.task_id : t \in GetStatus.one_shot_tasks}

\* What restore_pending_tasks passes to the handler factory for a row.
FactoryArgument(row) == ParametersOrEmpty(JsonLoads(row.parameters_json))

\* C23: the row written for a one-shot or cron task scheduled with the mapping P
\* yields P as the factory argument on restore; the stored parameters of a row change
\* only when a task is registered anew under its id; and the cron timer a restore
\* arms carries the factory argument of its row.
C23_ParametersRoundTrip ==
    [][/\ \A w \in Times, h \in HandlerTypes, q \in ParameterArgs :
            (ScheduleAt(w, h, q) /\ ~ret'.raised) =>
               FactoryArgument(store'[ret'.task_id]) = q
       /\ \A n \in Names, c \in CronExpressions, h \in HandlerTypes, q \in ParameterArgs :
            ScheduleCron(n, c, h, q) => FactoryArgument(store'[n]) = q
       /\ \A id \in TaskIds :
            (HasRow(store, id) /\ store[id].task_type \in {"one_shot", "cron"}) =>
               \/ store'[id].parameters_json = store[id].parameters_json
               \/ \E d \in Intervals : SchedulePeriodic(id, d, "None", "None")
               \/ \E c \in CronExpressions, h \in HandlerTypes, q \in ParameterArgs :
                     ScheduleCron(id, c, h, q)
       /\ RestorePendingTasks =>
            \A i \in NewTimers("cron") :
               timers'[i].parameters = FactoryArgument(store[timers'[i].task_id])]_vars

\* C23 witness: in a restarted process a restore has just armed a cron timer for a
\* row that was written for the empty mapping (stored as NULL); the timer carries
\* the empty mapping for its factory.
C23_EmptyMappingRestored ==
    /\ restarts = 1
    /\ ret.op = "restore_pending_tasks"
    /\ \E i \in DOMAIN timers :
          /\ timers[i].kind = "cron"
          /\ timers[i].pc = "new"
          /\ cron_tasks[timers[i].task_id] = i
          /\ store[timers[i].task_id].task_type = "cron"
          /\ store[timers[i].task_id].parameters_json = "NULL"
          /\ timers[i].parameters = "{}"

\* C24: discord_schedule_message and bsky_schedule_post called with a message and
\* an instant when_utc <= now return an error result saying the time is in the past
\* and create no timer, no table entry and no row.
C24_ToolsRejectPast ==
    [][\A m \in ToolTexts \ {""}, w \in Times :
         ((DiscordScheduleMessage(m, w) \/ BskySchedulePost(m, w)) /\ w <= clock) =>
            /\ ret'.error = "in the past"
            /\ timers' = timers
            /\ one_shot_tasks' = one_shot_tasks
            /\ store' = store]_vars

\* C24 witness: a tool call for the current instant has just been rejected as past,
\* while a task scheduled earlier through a tool is armed.
C24_ToolRejectedNow ==
    /\ ret.op \in ToolNames
    /\ ret.error = "in the past"
    /\ clock > 0
    /\ \E id \in Uuids : one_shot_tasks[id] # 0 /\ HasRow(store, id)

\* C25: the next occurrence of an expression is strictly later than the reference
\* instant it is computed from, is an occurrence of the expression, and skips none;
\* feeding each result back as the reference gives strictly increasing instants.
C25_NextOccurrenceStrictlyLater ==
    LET expr == timers[1].cron_expression
        after == timers[1].when
        next == CronNext(expr, after)
    IN /\ next > after
       /\ next % CronPeriod(expr) = 0
       /\ \A n \in (after + 1)..(next - 1) : n % CronPeriod(expr) # 0
       /\ CronNext(expr, next) > next
       /\ after > clock => after % CronPeriod(expr) = 0

\* C25 witness: starting from reference 1, the chain for "*/3 * * * *" has reached
\* 9 (by way of 3 and 6).
C25_ChainedThreeTimes ==
    /\ clock = 1
    /\ Len(timers) = 1
    /\ timers[1].cron_expression = "*/3 * * * *"
    /\ timers[1].when = 9

\* C26: in schedule_at, schedule_periodic and schedule_cron the row is written
\* before the timer is created and entered in its table: no call has armed its
\* timer while its save is still to come.
C26_PersistedBeforeArmed ==
    \A t \in Threads : calls[t] # Idle /\ calls[t].armed => calls[t].saved

\* C27: the action of a one-shot task is not invoked while its id is absent from
\* the in-memory table: once cancel has removed the id, the loop thread, whatever
\* point of _one_shot_task it has reached, does not start the action.
C27_RemovedIdNotInvoked ==
    [][\A id \in Uuids : one_shot_tasks[id] = 0 => invoked'[id] = invoked[id]]_vars

\* C28: the status of a row that is completed or cancelled changes only when a
\* periodic or cron task is registered again under its id (scheduled again); the
\* row of a one-shot task never goes from completed to cancelled or back, however
\* its fire and a cancel_task or cancel_all call interleave.
C28_TerminalStatusKept ==
    [][\A id \in TaskIds :
          (HasRow(store, id) /\ store[id].status \in {"completed", "cancelled"}) =>
              \/ store'[id].status = store[id].status
              \/ /\ store'[id].status = "scheduled"
                 /\ store'[id].task_type \in {"periodic", "cron"}]_vars

\* C29: the task_type of a row never changes once the row exists, and the live
\* timers of one task id are all of one type, whatever schedule_periodic and
\* schedule_cron calls are made (a periodic name may equal a cron task id).
C29_TaskTypeImmutable ==
    /\ [](\A id \in TaskIds :
            Cardinality({timers[i].kind : i \in {j \in DOMAIN timers :
                             timers[j].task_id = id /\ Live(timers[j])}}) <= 1)
    /\ [][\A id \in TaskIds :
            HasRow(store, id) => store'[id].task_type = store[id].task_type]_vars

\* C30: once two threads that called schedule_periodic or schedule_cron for one id
\* have both returned, the only live timer of that id is the one its table holds.
C30_RaceLeavesOneTimer ==
    (\A t \in Threads : calls[t] = Idle) =>
        \A id \in Names :
            /\ LiveTimersOf(timers, "periodic", id) \subseteq {tasks[id]}
            /\ LiveTimersOf(timers, "cron", id) \subseteq {cron_tasks[id]}

\* C31: at most one scheduler worker thread, with its event loop, exists at any
\* time, however start, stop and the schedule calls that start the loop lazily
\* interleave.
C31_OneWorker == workers <= 1

\* C32: within one periodic or cron timer no wait is pending while its action
\* runs, an invocation begins only from the start of the task or from a finished
\* wait, and a wait begins only at the start of the task or once the invocation
\* before it has returned or raised: invocations of one timer never overlap.
C32_OccurrencesInOrder ==
    /\ [](\A i \in DOMAIN timers :
            (timers[i].kind \in {"periodic", "cron"} /\ timers[i].pc = "running") =>
                timers[i].when = 0)
    /\ [][\A i \in DOMAIN timers \cap DOMAIN timers' :
            timers[i].kind \in {"periodic", "cron"} =>
                /\ (timers'[i].pc = "running" /\ timers'[i] # timers[i]) =>
                       timers[i].pc \in {"new", "sleeping"}
                /\ (timers'[i].pc = "sleeping" /\ timers[i].pc # "sleeping") =>
                       timers[i].pc \in {"new", "running"}]_vars

\* C32 witness: a periodic timer whose action returned once is running its action
\* again, and a cron timer whose action returned once waits for the next occurrence.
C32_SecondInvocation ==
    /\ \E i \in DOMAIN timers :
          /\ timers[i].kind = "periodic"
          /\ timers[i].pc = "running"
          /\ timers[i].outcome = "returned"
    /\ \E i \in DOMAIN timers :
          /\ timers[i].kind = "cron"
          /\ timers[i].pc = "sleeping"
          /\ timers[i].outcome = "returned"

\* C33: stop() with its default arguments cancels every live timer and empties the
\* three tables, and leaves every row as it was: the rows of the tasks that were
\* armed keep the status scheduled.
C33_StopKeepsRows ==
    [][Stop =>
         /\ store' = store
         /\ \A i \in DOMAIN timers' : ~Live(timers'[i])
         /\ tasks' = EmptyTable /\ one_shot_tasks' = EmptyTable /\ cron_tasks' = EmptyTable
         /\ \A id \in Held(tasks) \cup Held(one_shot_tasks) \cup Held(cron_tasks) :
               (HasRow(store, id) /\ store[id].status = "scheduled") =>
                   store'[id].status = "scheduled"]_vars

\* C33 witness: stop() has just returned; a one-shot timer and a cron timer it
\* cancelled have rows that are still scheduled.
C33_StoppedWithScheduledRows ==
    /\ ret.op = "stop"
    /\ \E i, j \in DOMAIN timers :
          /\ timers[i].kind = "one_shot" /\ timers[i].pc = "cancelled"
          /\ store[timers[i].task_id].status = "scheduled"
          /\ timers[j].kind = "cron" /\ timers[j].pc = "cancelled"
          /\ store[timers[j].task_id].status = "scheduled"

\* C34: can_execute_device_command returns true only if the most recent ledger
\* entry is active, has an armed_until_ts that is not earlier than the time of the
\* call, and lists "device" among its allowed modes; over an empty ledger it
\* returns false.
C34_DeviceCommandGate ==
    ret.op = "check_consent" =>
        /\ ret.can_execute_device_command = "True" =>
              /\ Len(ledger) > 0
              /\ Latest(ledger).consent_active
              /\ Latest(ledger).armed_until_ts # NoneTs
              /\ Latest(ledger).armed_until_ts >= ret.now
              /\ "device" \in Latest(ledger).allowed_modes
        /\ Len(ledger) = 0 => ret.can_execute_device_command = "False"

\* C34 witness: can_execute_device_command has returned true over a ledger whose
\* latest entry was armed after an earlier one was disarmed.
C34_DeviceCommandAllowed ==
    /\ ret.op = "check_consent"
    /\ ret.can_execute_device_command = "True"
    /\ Len(ledger) = 2
    /\ ~ledger[1].consent_active

\* C35: after disarm_consent or safe_mode, is_consent_active and
\* can_execute_device_command return false until consent is armed again, and after
\* arm_consent with duration d they return false at every time later than the arm
\* time plus d, unless consent is armed again.
C35_ConsentEnds ==
    (ret.op = "check_consent" /\ Len(ledger) > 0) =>
        /\ ~Latest(ledger).consent_active =>
              /\ ret.is_consent_active = "False"
              /\ ret.can_execute_device_command = "False"
        /\ (Latest(ledger).consent_active /\ ret.at > Latest(ledger).armed_until_ts) =>
              /\ ret.is_consent_active = "False"
              /\ ret.can_execute_device_command = "False"

\* C36: every entry of the one-shot, periodic and cron tables refers to a timer that
\* is still live (sleeping or executing); a timer that terminated for any reason
\* has left its table.
C36_TableEntriesLive ==
    \A id \in TaskIds :
        /\ one_shot_tasks[id] # 0 => Live(timers[one_shot_tasks[id]])
        /\ tasks[id] # 0 => Live(timers[tasks[id]])
        /\ cron_tasks[id] # 0 => Live(timers[cron_tasks[id]])

\* C37: a cancel_one_shot_task call made from a caller thread for a one-shot task
\* that finished on the loop thread (its action returned and its coroutine ran to
\* the end) did not raise, and returned true only if it was the call that removed
\* the entry from the table.
C37_CancelNeverRaises ==
    /\ ret.op = "cancel_one_shot_task"
    /\ \E i \in DOMAIN timers : timers[i].task_id = ret.task_id /\ timers[i].pc = "done"
    => /\ ret.error = "none"
       /\ ret.result => ret.removed

\* C38: while no scheduler call is in progress and no durable write has failed,
\* every id held in an in-memory table has a durable row whose status is scheduled
\* and whose task_type is that of the table holding it.
C38_TablesMatchRows ==
    calls = NoCalls /\ ~db_down =>
        \A id \in TaskIds :
            /\ one_shot_tasks[id] # 0 =>
                  /\ HasRow(store, id)
                  /\ store[id].status = "scheduled"
                  /\ store[id].task_type = "one_shot"
            /\ tasks[id] # 0 =>
                  /\ HasRow(store, id)
                  /\ store[id].status = "scheduled"
                  /\ store[id].task_type = "periodic"
            /\ cron_tasks[id] # 0 =>
                  /\ HasRow(store, id)
                  /\ store[id].status = "scheduled"
                  /\ store[id].task_type = "cron"

\* C39: whenever the SAFE MODE command handler (Discord or Telegram) reports
\* activation, the latest consent entry is inactive and cancel_all has run (the
\* three timer tables are empty and the cancelled flag is set); when recording the
\* consent change fails, the handler reports an error, cancel_all is not run and
\* the scheduled timers stay armed.
C39_SafeModeCommand ==
    /\ [](ret.op = "SAFE MODE" /\ ret.reply = "SAFE MODE ACTIVATED" =>
            /\ Len(ledger) > 0
            /\ ~Latest(ledger).consent_active
            /\ Armed = {}
            /\ \A i \in DOMAIN timers : ~Live(timers[i])
            /\ cancelled)
    /\ [][\A source \in CommandSources :
            SafeModeCommand(source) /\ db_down =>
                /\ ret'.reply = "Error"
                /\ UNCHANGED <<ledger, timers, tasks, one_shot_tasks, cron_tasks,
                               cancelled, store>>]_vars

\* The handler reported activation after cancelling an armed timer.
C39_ActivatedWithTimersCancelled ==
    /\ ret.op = "SAFE MODE"
    /\ ret.reply = "SAFE MODE ACTIVATED"
    /\ \E i \in DOMAIN timers : timers[i].pc = "cancelled"
    /\ ~Latest(ledger).consent_active

====
